---- MODULE Spec2Model ----
(***************************************************************************)
(* Account synchronisation engine of OutlookManager                        *)
(* (src/app/accounts/sync.py, repository.py, sync_ops.py).                 *)
(*                                                                         *)
(* Python values are tagged records; a dict is a function from keys to     *)
(* values; a str is a sequence of symbols (a symbol is one character, or   *)
(* an opaque word standing for a run of letters).                          *)
(***************************************************************************)
EXTENDS Integers, Sequences, FiniteSets, TLC

\* ------------------------------------------------------------------------
\* Python values
\* ------------------------------------------------------------------------
None == [t |-> "none"]

VStr(s) == [t |-> "str", v |-> s]

VInt(n) == [t |-> "int", n |-> n]

\* a float n + 0.5 (half) or n + 0.0
VFloat(n, half) == [t |-> "float", n |-> n, half |-> half]

\* float("inf")
VInf == [t |-> "inf"]

VList(xs) == [t |-> "list", items |-> xs]

VDict(f) == [t |-> "dict", d |-> f]

EmptyDict == [k \in {} |-> None]

\* dict.get(k) with default None
Get(d, k) == IF k \in DOMAIN d THEN d[k] ELSE None

\* d[k] = v
Put(d, k, v) == [x \in (DOMAIN d) \cup {k} |-> IF x = k THEN v ELSE d[x]]

\* d.pop(k, None)
Pop(d, k) == [x \in (DOMAIN d) \ {k} |-> d[x]]

\* Python truthiness of a value
Truthy(v) ==
    CASE v.t = "none"  -> FALSE
      [] v.t = "str"   -> v.v # <<>>
      [] v.t = "int"   -> v.n # 0
      [] v.t = "float" -> v.n # 0 \/ v.half
      [] v.t = "inf"   -> TRUE
      [] v.t = "list"  -> v.items # <<>>
      [] v.t = "dict"  -> DOMAIN v.d # {}

\* ------------------------------------------------------------------------
\* Text
\* ------------------------------------------------------------------------
WS == {" ", "LF", "CR"}

DigitChars == <<"0", "1", "2", "3", "4", "5", "6", "7", "8", "9">>

IsDigit(c) == \E i \in 1..10 : DigitChars[i] = c

DigitVal(c) == (CHOOSE i \in 1..10 : DigitChars[i] = c) - 1

\* symbols in code-point order, used wherever the code sorts strings
Alphabet ==
    <<"LF", "CR", " ", ",", ".", "0", "1", "2", "3", "4", "5", "6", "7", "8", "9",
      "None", "a", "b", "c", "inf", "memo", "n1", "n2", "r1", "r2", "r3",
      "vip", "work", "x">>

Rank(c) == CHOOSE i \in 1..Len(Alphabet) : Alphabet[i] = c

RECURSIVE LStrip(_)
LStrip(s) == IF s # <<>> /\ Head(s) \in WS THEN LStrip(Tail(s)) ELSE s

RECURSIVE RStrip(_)
RStrip(s) ==
    IF s # <<>> /\ s[Len(s)] \in WS THEN RStrip(SubSeq(s, 1, Len(s) - 1)) ELSE s

\* one whitespace character is removed at each end
Strip_OneEach(s) ==
    LET left == IF s # <<>> /\ Head(s) \in WS THEN Tail(s) ELSE s
    IN IF left # <<>> /\ left[Len(left)] \in WS THEN SubSeq(left, 1, Len(left) - 1)
       ELSE left

\* str.strip()
Strip(s) == RStrip(LStrip(s))

\* text.replace("\r\n", "\n").replace("\r", "\n")
RECURSIVE ReplaceNewlines(_)
ReplaceNewlines(s) ==
    IF s = <<>> THEN <<>>
    ELSE IF Len(s) >= 2 /\ s[1] = "CR" /\ s[2] = "LF"
         THEN <<"LF">> \o ReplaceNewlines(SubSeq(s, 3, Len(s)))
    ELSE IF s[1] = "CR" THEN <<"LF">> \o ReplaceNewlines(Tail(s))
    ELSE <<s[1]>> \o ReplaceNewlines(Tail(s))

\* decimal digits of a natural number
RECURSIVE Digits(_)
Digits(n) ==
    IF n < 10 THEN <<DigitChars[n + 1]>>
    ELSE Digits(n \div 10) \o <<DigitChars[(n % 10) + 1]>>

AllDigits(s) == \A i \in 1..Len(s) : IsDigit(s[i])

RECURSIVE DigitsValue(_)
DigitsValue(s) ==
    IF s = <<>> THEN 0
    ELSE 10 * DigitsValue(SubSeq(s, 1, Len(s) - 1)) + DigitVal(s[Len(s)])

\* str(v)
PyStr(v) ==
    CASE v.t = "str"   -> v.v
      [] v.t = "none"  -> <<"None">>
      [] v.t = "int"   -> Digits(v.n)
      [] v.t = "float" -> Digits(v.n) \o <<".", IF v.half THEN "5" ELSE "0">>
      [] v.t = "inf"   -> <<"inf">>
      [] OTHER         -> <<"x">>

\* lexicographic order on texts, by code point
RECURSIVE TextLess(_, _)
TextLess(a, b) ==
    IF b = <<>> THEN FALSE
    ELSE IF a = <<>> THEN TRUE
    ELSE IF Rank(a[1]) # Rank(b[1]) THEN Rank(a[1]) < Rank(b[1])
    ELSE TextLess(Tail(a), Tail(b))

\* sorted(list of str)
RECURSIVE SortedTexts(_)
SortedTexts(xs) ==
    IF xs = <<>> THEN <<>>
    ELSE LET m == CHOOSE i \in 1..Len(xs) :
                    /\ \A j \in 1..Len(xs) : ~TextLess(xs[j], xs[i])
                    /\ \A j \in 1..(i - 1) : xs[j] # xs[i]
             rest == SubSeq(xs, 1, m - 1) \o SubSeq(xs, m + 1, Len(xs))
         IN <<xs[m]>> \o SortedTexts(rest)

\* sorted(set of str)
RECURSIVE SetToSeq(_)
SetToSeq(S) ==
    IF S = {} THEN <<>>
    ELSE LET x == CHOOSE y \in S : TRUE IN <<x>> \o SetToSeq(S \ {x})

SortedSet(S) == SortedTexts(SetToSeq(S))

\* ------------------------------------------------------------------------
\* Number parsing
\* ------------------------------------------------------------------------
Ok(n) == [ok |-> TRUE, n |-> n]

Fail == [ok |-> FALSE, n |-> 0]

\* int(text): surrounding whitespace is ignored, anything but digits raises ValueError
IntOfText(s) ==
    LET body == Strip(s)
    IN IF body # <<>> /\ AllDigits(body) THEN Ok(DigitsValue(body)) ELSE Fail

\* int(v): ValueError / TypeError are reported as Fail
IntOf(v) ==
    CASE v.t = "int"   -> Ok(v.n)
      [] v.t = "float" -> Ok(v.n)
      [] v.t = "str"   -> IntOfText(v.v)
      [] OTHER         -> Fail

\* position of the first "." of a text, 0 when there is none
DotAt(s) ==
    IF \E i \in 1..Len(s) : s[i] = "."
    THEN CHOOSE i \in 1..Len(s) : s[i] = "." /\ \A j \in 1..(i - 1) : s[j] # "."
    ELSE 0

\* int(float(text)) for a decimal literal; ValueError is reported as Fail
IntOfFloatText(s) ==
    LET body == Strip(s)
        d    == DotAt(body)
        ip   == IF d = 0 THEN body ELSE SubSeq(body, 1, d - 1)
        fp   == IF d = 0 THEN <<>> ELSE SubSeq(body, d + 1, Len(body))
    IN IF AllDigits(ip) /\ AllDigits(fp) /\ (ip # <<>> \/ fp # <<>>)
       THEN Ok(DigitsValue(ip)) ELSE Fail

\* ------------------------------------------------------------------------
\* Record normaliser (AccountSynchronizer._normalise_payload)
\* ------------------------------------------------------------------------
\* sync.py 839-845
_normalise_note_value(value) ==
    IF value = None THEN None
    ELSE LET stripped == Strip(ReplaceNewlines(PyStr(value)))
         IN IF stripped # <<>> THEN VStr(stripped) ELSE None

\* sync.py 733-741: the cleaned list keeps the order and the repetitions of its input
RECURSIVE CleanedTags(_)
CleanedTags(tags) ==
    IF tags = <<>> THEN <<>>
    ELSE LET tag == Head(tags)
             tag_text == Strip(PyStr(tag))
         IN IF tag = None \/ tag_text = <<>> THEN CleanedTags(Tail(tags))
            ELSE <<VStr(tag_text)>> \o CleanedTags(Tail(tags))

\* sync.py 728-744
NormaliseTagsField(p) ==
    IF "tags" \notin DOMAIN p \/ p["tags"] = None THEN Put(p, "tags", VList(<<>>))
    ELSE IF p["tags"].t = "list" THEN Put(p, "tags", VList(CleanedTags(p["tags"].items)))
    ELSE LET tag_text == Strip(PyStr(p["tags"]))
         IN Put(p, "tags", VList(IF tag_text # <<>> THEN <<VStr(tag_text)>> ELSE <<>>))

\* sync.py 746-751
NormaliseNoteField(p) ==
    IF "note" \notin DOMAIN p THEN p
    ELSE LET note_value == _normalise_note_value(p["note"])
         IN IF note_value = None THEN Pop(p, "note") ELSE Put(p, "note", note_value)

\* sync.py 754-759 and 782-787: status and status_reason
NormaliseTextField(p, key) ==
    IF key \notin DOMAIN p THEN p
    ELSE IF p[key] = None THEN Pop(p, key)
    ELSE Put(p, key, VStr(Strip(PyStr(p[key]))))

\* sync.py 761-780
NormaliseStatusUpdatedAt(p) ==
    IF "status_updated_at" \notin DOMAIN p THEN p
    ELSE IF p["status_updated_at"] = None THEN Pop(p, "status_updated_at")
    ELSE LET status_str == Strip(PyStr(p["status_updated_at"]))
             timestamp  == IntOfFloatText(status_str)
         IN IF status_str = <<>> THEN Pop(p, "status_updated_at")
            ELSE IF timestamp.ok THEN Put(p, "status_updated_at", VStr(Digits(timestamp.n)))
            ELSE Put(p, "status_updated_at", VStr(status_str))

\* sync.py 797-807: the count of a token_failures dict, coerced to an integer
CoercedCount(count_value) ==
    IF count_value.t = "str"
    THEN IF Strip(count_value.v) = <<>> THEN 0
         ELSE IF IntOfText(count_value.v).ok THEN IntOfText(count_value.v).n ELSE 0
    ELSE IF count_value = None THEN 0
    ELSE IF IntOf(count_value).ok THEN IntOf(count_value).n ELSE 0

\* a dict that is kept with the count as it came
NormalisedFailuresDict_Kept(tf) == tf

\* sync.py 795-808: the dict is updated in place and kept
NormalisedFailuresDict(tf) ==
    IF "count" \in DOMAIN tf THEN Put(tf, "count", VInt(CoercedCount(tf["count"]))) ELSE tf

\* sync.py 789-821
NormaliseTokenFailures(p) ==
    IF "token_failures" \notin DOMAIN p THEN p
    ELSE LET token_failures == p["token_failures"]
         IN IF token_failures = None THEN Pop(p, "token_failures")
            ELSE IF token_failures.t = "dict"
                 THEN Put(p, "token_failures", VDict(NormalisedFailuresDict(token_failures.d)))
            ELSE IF token_failures.t \in {"int", "float", "inf", "str"}
                 THEN Put(p, "token_failures",
                          VDict([count |-> VInt(IF IntOf(token_failures).ok
                                                THEN IntOf(token_failures).n ELSE 0)]))
            ELSE Put(p, "token_failures", VDict([count |-> VInt(0)]))

\* sync.py 717-837
_normalise_payload(payload) ==
    NormaliseTokenFailures(
      NormaliseTextField(
        NormaliseStatusUpdatedAt(
          NormaliseTextField(
            NormaliseNoteField(
              NormaliseTagsField(payload)), "status")), "status_reason"))

\* int(v) raises OverflowError for an infinite float
IntOverflows(v) == v.t = "inf"

\* float(text) is infinite
FloatOfTextIsInf(s) == Strip(s) = <<"inf">>

\* sync.py 774-779 and 797-816: the except clauses name ValueError and
\* TypeError; an OverflowError of int() leaves the function
NormaliseRaises(payload) ==
    \/ /\ "status_updated_at" \in DOMAIN payload
       /\ payload["status_updated_at"] # None
       /\ FloatOfTextIsInf(PyStr(payload["status_updated_at"]))
    \/ /\ "token_failures" \in DOMAIN payload
       /\ \/ IntOverflows(payload["token_failures"])
          \/ /\ payload["token_failures"].t = "dict"
             /\ "count" \in DOMAIN payload["token_failures"].d
             /\ IntOverflows(payload["token_failures"].d["count"])

\* a call of _normalise_payload: the record it returns, or the error it raises
Normalised(payload) ==
    IF NormaliseRaises(payload)
    THEN [ok |-> FALSE, error |-> "OverflowError", value |-> EmptyDict]
    ELSE [ok |-> TRUE, error |-> "none", value |-> _normalise_payload(payload)]

\* sync.py 720 and 802-808: normalised = dict(payload) is a shallow copy, so the
\* count written into the token_failures dict is written into the caller's
\* record as well; this is the caller's record after the call
PayloadAfterNormalise(payload) ==
    IF "token_failures" \in DOMAIN payload /\ payload["token_failures"].t = "dict"
    THEN Put(payload, "token_failures",
             VDict(NormalisedFailuresDict(payload["token_failures"].d)))
    ELSE payload

\* ------------------------------------------------------------------------
\* JSON text, checksum, tags column
\* ------------------------------------------------------------------------
\* dict keys in code-point order (json.dumps(sort_keys=True))
KeyOrder ==
    <<"client_id", "count", "first_failure_at", "last_error_message",
      "last_failure_at", "last_status_code", "note", "refresh_token", "status",
      "status_reason", "status_updated_at", "tags", "token_failures">>

SortedKeys(d) == SelectSeq(KeyOrder, LAMBDA k : k \in DOMAIN d)

\* the members of a JSON text: objects as key-sorted member lists
RECURSIVE JsonMembers(_)
JsonMembers(v) ==
    CASE v.t = "dict" ->
           LET keys == SortedKeys(v.d)
           IN [t |-> "obj",
               members |-> [i \in 1..Len(keys) |-> <<keys[i], JsonMembers(v.d[keys[i]])>>]]
      [] v.t = "list" ->
           [t |-> "arr", items |-> [i \in 1..Len(v.items) |-> JsonMembers(v.items[i])]]
      [] OTHER -> v

RECURSIVE JsonValue(_)
JsonValue(m) ==
    CASE m.t = "obj" ->
           VDict([k \in {m.members[i][1] : i \in 1..Len(m.members)} |->
                    JsonValue((m.members[CHOOSE i \in 1..Len(m.members) : m.members[i][1] = k])[2])])
      [] m.t = "arr" ->
           VList([i \in 1..Len(m.items) |-> JsonValue(m.items[i])])
      [] OTHER -> m

\* json.dumps(value, sort_keys=True, separators=(",", ":"))
JsonDumps(value) == [t |-> "json", j |-> JsonMembers(value)]

\* a text that is not JSON
RawText(s) == [t |-> "raw", v |-> s]

\* json.loads(text); JSONDecodeError is reported as ok = FALSE
JsonLoads(text) ==
    IF text.t = "json" THEN [ok |-> TRUE, value |-> JsonValue(text.j)]
    ELSE [ok |-> FALSE, value |-> None]

\* sync.py 878-880
_serialise_payload(payload) == JsonDumps(VDict(payload))

\* sync.py 882-890
_checksum(serialised_payload) ==
    IF serialised_payload = None THEN None
    ELSE IF serialised_payload.t = "dict"
         THEN [t |-> "sha256", of |-> JsonDumps(serialised_payload)]
    ELSE [t |-> "sha256", of |-> serialised_payload]

\* [str(tag).strip() for tag in tags if str(tag).strip()]
RECURSIVE StrippedTexts(_)
StrippedTexts(tags) ==
    IF tags = <<>> THEN <<>>
    ELSE LET text == Strip(PyStr(Head(tags)))
         IN IF text = <<>> THEN StrippedTexts(Tail(tags))
            ELSE <<VStr(text)>> \o StrippedTexts(Tail(tags))

\* sync.py 847-855
_serialise_tags(tags) ==
    IF tags.t = "list" THEN JsonDumps(VList(StrippedTexts(tags.items)))
    ELSE IF tags = None THEN JsonDumps(VList(<<>>))
    ELSE JsonDumps(VList(IF Strip(PyStr(tags)) # <<>>
                         THEN <<VStr(Strip(PyStr(tags)))>> ELSE <<>>))

\* raw.split(",")
RECURSIVE SplitCommas(_)
SplitCommas(s) ==
    IF \E i \in 1..Len(s) : s[i] = ","
    THEN LET i == CHOOSE k \in 1..Len(s) : s[k] = "," /\ \A j \in 1..(k - 1) : s[j] # ","
         IN <<VStr(SubSeq(s, 1, i - 1))>> \o SplitCommas(SubSeq(s, i + 1, Len(s)))
    ELSE <<VStr(s)>>

\* sync.py 857-876, for the TEXT column holding NULL, "", a JSON array or a text
\* that is not JSON
_deserialise_tags(raw) ==
    IF raw = None \/ raw = RawText(<<>>) THEN <<>>
    ELSE IF raw.t = "json" THEN StrippedTexts(JsonLoads(raw).value.items)
    ELSE StrippedTexts(SplitCommas(raw.v))

\* the texts of a list of str
Texts(xs) == [i \in 1..Len(xs) |-> xs[i].v]

\* set(list of str)
TagSet(xs) == {xs[i].v : i \in 1..Len(xs)}

\* ------------------------------------------------------------------------
\* Pull: merging the remote records into the local records
\* ------------------------------------------------------------------------
\* "for tag in tags" over payload.get("tags", []) or []
IterTags(payload) ==
    LET tags == Get(payload, "tags")
    IN CASE tags.t = "list" -> tags.items
         [] tags.t = "str"  -> [i \in 1..Len(tags.v) |-> VStr(<<tags.v[i]>>)]
         [] OTHER           -> <<>>

\* sync.py 621-630; the result is the flag and the local record after the call
_merge_tags_from_remote(local_payload, remote_payload) ==
    LET normalised_remote == StrippedTexts(IterTags(remote_payload))
        normalised_local  == StrippedTexts(IterTags(local_payload))
    IN IF SortedTexts(Texts(normalised_remote)) = SortedTexts(Texts(normalised_local))
       THEN [changed |-> FALSE, payload |-> local_payload]
       ELSE [changed |-> TRUE,
             payload |-> Put(local_payload, "tags", VList(normalised_remote))]

\* sync.py 632-641
_merge_note_from_remote(local_payload, remote_payload) ==
    LET remote_note == _normalise_note_value(Get(remote_payload, "note"))
        local_note  == _normalise_note_value(Get(local_payload, "note"))
    IN IF local_note = remote_note THEN [changed |-> FALSE, payload |-> local_payload]
       ELSE IF remote_note = None
            THEN [changed |-> TRUE, payload |-> Pop(local_payload, "note")]
       ELSE [changed |-> TRUE, payload |-> Put(local_payload, "note", remote_note)]

\* sync.py 678-702 and 957-987: the failure count read from a token_failures value
FailureCount(token_failures) ==
    IF token_failures.t = "dict" /\ "count" \in DOMAIN token_failures.d
    THEN IF token_failures.d["count"] = None THEN 0
         ELSE IF IntOf(token_failures.d["count"]).ok
              THEN IntOf(token_failures.d["count"]).n ELSE 0
    ELSE IF token_failures.t \in {"int", "float", "str"}
         THEN IF IntOf(token_failures).ok THEN IntOf(token_failures).n ELSE 0
    ELSE 0

\* sync.py 648-672: one of status, status_updated_at, status_reason
MergeFieldFromRemote(m, remote_payload, key) ==
    IF Get(m.payload, key) # Get(remote_payload, key) /\ Get(remote_payload, key) # None
    THEN [changed |-> TRUE, payload |-> Put(m.payload, key, Get(remote_payload, key))]
    ELSE m

\* sync.py 674-713
MergeFailuresFromRemote(m, remote_payload) ==
    LET remote_token_failures == Get(remote_payload, "token_failures")
        local_count  == FailureCount(Get(m.payload, "token_failures"))
        remote_count == FailureCount(remote_token_failures)
    IN IF local_count # remote_count
       THEN [changed |-> TRUE,
             payload |-> Put(m.payload, "token_failures",
                             IF remote_token_failures.t = "dict"
                             THEN remote_token_failures
                             ELSE VDict([count |-> VInt(remote_count)]))]
       ELSE m

\* sync.py 643-715
_merge_status_from_remote(local_payload, remote_payload) ==
    MergeFailuresFromRemote(
      MergeFieldFromRemote(
        MergeFieldFromRemote(
          MergeFieldFromRemote([changed |-> FALSE, payload |-> local_payload],
                               remote_payload, "status"),
          remote_payload, "status_updated_at"),
        remote_payload, "status_reason"),
      remote_payload)

\* sync.py 928-994
_has_critical_field_differences(local_payload, remote_payload) ==
    \/ Get(local_payload, "status") # Get(remote_payload, "status")
    \/ Get(local_payload, "status_updated_at") # Get(remote_payload, "status_updated_at")
    \/ Get(local_payload, "status_reason") # Get(remote_payload, "status_reason")
    \/ FailureCount(Get(local_payload, "token_failures"))
         # FailureCount(Get(remote_payload, "token_failures"))

\* "changed = f(...) or changed": the flag so far joined with the next merge
Then(changed, m) == [changed |-> changed \/ m.changed, payload |-> m.payload]

ThenNote(t, remote_payload) ==
    Then(t.changed, _merge_note_from_remote(t.payload, remote_payload))

ThenStatus(n, remote_payload) ==
    Then(n.changed, _merge_status_from_remote(n.payload, remote_payload))

\* sync.py 395-402 and 411-419: the three merges applied in turn to the local entry
MergeNonAuthoritative(local_entry, remote_payload) ==
    ThenStatus(ThenNote(_merge_tags_from_remote(local_entry, remote_payload),
                        remote_payload),
               remote_payload)

Policies == {"prefer_local", "prefer_remote"}

\* the outcome of one iteration of the merge loop: whether the email is in the
\* merged map afterwards, its record there, and the counter incremented
Outcome(present, payload, counter, changed) ==
    [present |-> present, payload |-> payload, counter |-> counter, changed |-> changed]

\* a merge that sets changed and leaves the count of updates alone
CountMerge_Uncounted(m, otherwise) == Outcome(TRUE, m.payload, otherwise, m.changed)

\* sync.py 403-408 and 420-426: updated when a merge changed the entry, else
\* the given counter
CountMerge(m, otherwise) ==
    IF m.changed THEN Outcome(TRUE, m.payload, "updated", TRUE)
    ELSE Outcome(TRUE, m.payload, otherwise, FALSE)

\* sync.py 384-408: equal checksums
MergeEqualChecksums(local_payload, remote_payload, conflict_strategy) ==
    IF DOMAIN local_payload # {} /\ DOMAIN remote_payload # {}
       /\ _has_critical_field_differences(local_payload, remote_payload)
    THEN IF conflict_strategy = "prefer_remote"
         THEN Outcome(TRUE, remote_payload, "updated", TRUE)
         ELSE CountMerge(MergeNonAuthoritative(local_payload, remote_payload), "none")
    ELSE Outcome(TRUE, local_payload, "none", FALSE)

\* a merge that lets a tombstone remove the local record under either policy
MergeTombstone_AlwaysRemoves(in_local, local_entry, conflict_strategy) ==
    IF ~in_local THEN Outcome(FALSE, EmptyDict, "none", FALSE)
    ELSE Outcome(FALSE, EmptyDict, "removed", TRUE)

\* sync.py 360-372: the remote row is a tombstone
MergeTombstone(in_local, local_entry, conflict_strategy) ==
    IF ~in_local THEN Outcome(FALSE, EmptyDict, "none", FALSE)
    ELSE IF conflict_strategy = "prefer_local"
         THEN Outcome(TRUE, local_entry, "skipped", FALSE)
    ELSE Outcome(FALSE, EmptyDict, "removed", TRUE)

\* an adoption that does not set changed
MergeAbsent_NotChanged(remote_payload) == Outcome(TRUE, remote_payload, "added", FALSE)

\* sync.py 374-378: the email is not in the local records
MergeAbsent(remote_payload) == Outcome(TRUE, remote_payload, "added", TRUE)

\* a prefer_local merge that reports an update whatever the merges changed
MergePreferLocal_CountsUpdated(local_entry, remote_payload) ==
    Outcome(TRUE, MergeNonAuthoritative(local_entry, remote_payload).payload,
            "updated", TRUE)

\* sync.py 410-426: the checksums differ, prefer_local
MergePreferLocal(local_entry, remote_payload) ==
    CountMerge(MergeNonAuthoritative(local_entry, remote_payload), "skipped")

\* a replacement that keeps the local credentials
MergePreferRemote_KeepsCredentials(local_entry, remote_payload) ==
    Outcome(TRUE,
            Put(Put(remote_payload, "refresh_token", Get(local_entry, "refresh_token")),
                "client_id", Get(local_entry, "client_id")),
            "updated", TRUE)

\* sync.py 428-433: the checksums differ, prefer_remote
MergePreferRemote(local_entry, remote_payload) ==
    Outcome(TRUE, remote_payload, "updated", TRUE)

\* sync.py 360-433: the branches of one iteration, given the local entry as the
\* normaliser left it and the checksum of its normal form
MergeEntry(in_local, local_entry, local_checksum, record, conflict_strategy) ==
    IF record.is_deleted
    THEN MergeTombstone(in_local, local_entry, conflict_strategy)
    ELSE IF ~in_local THEN MergeAbsent(record.data)
    ELSE IF local_checksum = record.checksum
         THEN MergeEqualChecksums(local_entry, record.data, conflict_strategy)
    ELSE IF conflict_strategy = "prefer_local"
         THEN MergePreferLocal(local_entry, record.data)
    ELSE MergePreferRemote(local_entry, record.data)

\* sync.py 307-433: one iteration of the loop, for an email that is in merged
\* (in_local) or not; local_payload is the record read from the local store
MergeRecord(in_local, local_payload, record, conflict_strategy) ==
    MergeEntry(in_local,
               PayloadAfterNormalise(local_payload),
               _checksum(_serialise_payload(_normalise_payload(local_payload))),
               record, conflict_strategy)

\* ------------------------------------------------------------------------
\* The remote store: main table rows by email, and the tag relation
\* ------------------------------------------------------------------------
Emails == {"alice", "bob"}

\* the order in which the loops of a push visit the emails
EmailOrder == <<"alice", "bob">>

RECURSIVE Flatten(_)
Flatten(ss) == IF ss = <<>> THEN <<>> ELSE Head(ss) \o Flatten(Tail(ss))

\* sync.py 548-571: the tag set of one email (rows with an empty tag are skipped)
_fetch_existing_tags(dbv, email) ==
    {pair[2] : pair \in {q \in dbv.tag_rows : q[1] = email /\ q[2] # <<>>}}

\* sync.py 466-473: a missing tags column is added and filled with '[]'
WithTagsColumn(dbv) ==
    IF dbv.has_tags_column THEN dbv.rows
    ELSE [e \in DOMAIN dbv.rows |->
            IF dbv.rows[e].tags = None
            THEN [dbv.rows[e] EXCEPT !.tags = _serialise_tags(VList(<<>>))]
            ELSE dbv.rows[e]]

\* sync.py 492-500: the (email, tag) pairs read from the tags column, in the
\* order of the rows, repeated tags included
SeedPairs(rows) ==
    Flatten([i \in 1..Len(EmailOrder) |->
       LET e == EmailOrder[i]
       IN IF e \in DOMAIN rows /\ rows[e].tags # None /\ rows[e].tags # RawText(<<>>)
          THEN [k \in 1..Len(_deserialise_tags(rows[e].tags)) |->
                  <<e, _deserialise_tags(rows[e].tags)[k].v>>]
          ELSE <<>>])

\* sync.py 501-510: INSERT ... ON CONFLICT (email, tag) DO NOTHING, pair by
\* pair; the rows the statement writes
RECURSIVE InsertOnConflictDoNothing(_, _)
InsertOnConflictDoNothing(table, pairs) ==
    IF pairs = <<>> THEN <<>>
    ELSE IF Head(pairs) \in table
         THEN InsertOnConflictDoNothing(table, Tail(pairs))
         ELSE <<Head(pairs)>>
              \o InsertOnConflictDoNothing(table \cup {Head(pairs)}, Tail(pairs))

\* the count is taken as the count of rows
TagRelationEmpty_Ignored(dbv) == TRUE

\* sync.py 488-490: SELECT COUNT(*) of the tag relation is 0
TagRelationEmpty(dbv) == dbv.tag_rows = {}

\* sync.py 490-511: the tag rows that a run of the body writes
SeededRows(dbv) ==
    IF TagRelationEmpty(dbv)
    THEN InsertOnConflictDoNothing(dbv.tag_rows, SeedPairs(WithTagsColumn(dbv)))
    ELSE <<>>

\* sync.py 451-534
_ensure_schema(dbv) ==
    LET rows1 == WithTagsColumn(dbv)
        \* 490-511: an empty tag relation is seeded from the tags column
        tag_rows1 == dbv.tag_rows
                     \cup {SeededRows(dbv)[i] : i \in 1..Len(SeededRows(dbv))}
        \* 515-534: a note column that was just added is filled from the payloads
        NoteOf(row) ==
            IF row.data = RawText(<<>>) \/ ~JsonLoads(row.data).ok THEN None
            ELSE _normalise_note_value(Get(JsonLoads(row.data).value.d, "note"))
        rows2 == IF dbv.has_note_column THEN rows1
                 ELSE [e \in DOMAIN rows1 |->
                         IF NoteOf(rows1[e]) # None
                         THEN [rows1[e] EXCEPT !.note = NoteOf(rows1[e])]
                         ELSE rows1[e]]
    IN [rows |-> rows2, tag_rows |-> tag_rows1,
        has_tags_column |-> TRUE, has_note_column |-> TRUE]

\* sync.py 223-224: the tags of the tag relation, sorted, as a list of str
StoredTags(tags) == [i \in 1..Len(tags) |-> VStr(tags[i])]

\* the tags column first, the tag relation where the column is empty
TagsFromColumn_ColumnFirst(stored_tags, row) ==
    IF _deserialise_tags(row.tags) # <<>> THEN _deserialise_tags(row.tags) ELSE stored_tags

\* sync.py 224: stored_tags or self._deserialise_tags(row.get("tags"))
TagsFromColumn(stored_tags, row) ==
    IF stored_tags # <<>> THEN stored_tags ELSE _deserialise_tags(row.tags)

\* sync.py 225-228
WithTags(payload, tags_from_column) ==
    IF tags_from_column # <<>> THEN Put(payload, "tags", VList(tags_from_column))
    ELSE IF "tags" \notin DOMAIN payload THEN Put(payload, "tags", VList(<<>>))
    ELSE payload

\* sync.py 234-236
WithNote(normalised_payload, note_from_column) ==
    IF note_from_column # None THEN Put(normalised_payload, "note", note_from_column)
    ELSE normalised_payload

\* the checksum column taken for the checksum of the remote record
combined_checksum_Stored(calculated_checksum, row) == row.checksum

\* sync.py 264-268: the stored checksum stands in only for a calculated
\* checksum of None
combined_checksum(calculated_checksum, row) ==
    IF calculated_checksum = None THEN row.checksum ELSE calculated_checksum

\* sync.py 256-291
RemoteAccount(normalised_payload, row) ==
    [data |-> normalised_payload,
     checksum |-> combined_checksum(_checksum(_serialise_payload(normalised_payload)), row),
     is_deleted |-> row.is_deleted]

\* sync.py 212: json.loads(row["data"]) if row["data"] else {}
RowPayload(row) ==
    IF row.data = RawText(<<>>) THEN EmptyDict ELSE JsonLoads(row.data).value.d

\* sync.py 209-291: the remote record built from one row
RemoteRecord(dbv, email) ==
    RemoteAccount(
      WithNote(
        _normalise_payload(
          WithTags(RowPayload(dbv.rows[email]),
                   TagsFromColumn(StoredTags(SortedSet(_fetch_existing_tags(dbv, email))),
                                  dbv.rows[email]))),
        _normalise_note_value(dbv.rows[email].note)),
      dbv.rows[email])

\* sync.py 212 and 225-228: data that parses to a list, a number, a text or
\* null; storing or looking up "tags" in it raises TypeError
NotAnObject(row) ==
    /\ row.data # RawText(<<>>)
    /\ JsonLoads(row.data).ok
    /\ JsonLoads(row.data).value.t # "dict"

\* sync.py 210-228: the loop over the rows raises
PayloadRaises(dbv) == \E e \in DOMAIN dbv.rows : NotAnObject(dbv.rows[e])

\* sync.py 211-215: rows whose data is not JSON are skipped
ReadableRows(dbv) ==
    {e \in DOMAIN dbv.rows :
        dbv.rows[e].data = RawText(<<>>) \/ JsonLoads(dbv.rows[e].data).ok}

SyncReport(added, updated, removed, skipped, marked_deleted) ==
    [added |-> added, updated |-> updated, removed |-> removed,
     skipped |-> skipped, marked_deleted |-> marked_deleted]

\* sync.py 298-445: the merged map, the report and the flag, from the outcome
\* of every iteration
MergeOutcomes(local_accounts, out) ==
    [merged  |-> [e \in {x \in DOMAIN local_accounts : x \notin DOMAIN out}
                          \cup {x \in DOMAIN out : out[x].present} |->
                    IF e \in DOMAIN out THEN out[e].payload ELSE local_accounts[e]],
     report  |-> SyncReport(Cardinality({e \in DOMAIN out : out[e].counter = "added"}),
                            Cardinality({e \in DOMAIN out : out[e].counter = "updated"}),
                            Cardinality({e \in DOMAIN out : out[e].counter = "removed"}),
                            Cardinality({e \in DOMAIN out : out[e].counter = "skipped"}),
                            0),
     changed |-> \E e \in DOMAIN out : out[e].changed,
     \* per email: the counter its iteration incremented, and whether it set changed
     counted |-> [e \in DOMAIN out |-> out[e].counter],
     set_changed |-> [e \in DOMAIN out |-> out[e].changed]]

\* sync.py 298-445
_merge_remote_into_local(local_accounts, remote_accounts, conflict_strategy) ==
    MergeOutcomes(local_accounts,
                  [e \in DOMAIN remote_accounts |->
                     MergeRecord(e \in DOMAIN local_accounts,
                                 IF e \in DOMAIN local_accounts THEN local_accounts[e]
                                 ELSE EmptyDict,
                                 remote_accounts[e], conflict_strategy)])

\* sync.py 193-296, on the remote state left by _ensure_schema
sync_db_to_file(local_accounts, dbv, conflict_strategy) ==
    _merge_remote_into_local(local_accounts,
                             [e \in ReadableRows(dbv) |-> RemoteRecord(dbv, e)],
                             conflict_strategy)

\* ------------------------------------------------------------------------
\* Push: the statements of one transaction
\* ------------------------------------------------------------------------
\* sync.py 536-546
_prepare_tags_snapshot(accounts) ==
    [normalised_accounts |-> [e \in DOMAIN accounts |-> _normalise_payload(accounts[e])],
     tags_snapshot |-> [e \in DOMAIN accounts |->
                          TagSet(_normalise_payload(accounts[e])["tags"].items)]]

\* an upsert that leaves a tombstone with an equal checksum as it is
UpsertStatement_KeepsTombstone(email, normalised_accounts, existing, source) ==
    IF email \notin DOMAIN normalised_accounts THEN <<>>
    ELSE LET normalised_payload == normalised_accounts[email]
             serialised == _serialise_payload(normalised_payload)
             row == [data |-> serialised,
                     checksum |-> _checksum(serialised),
                     tags |-> _serialise_tags(Get(normalised_payload, "tags")),
                     note |-> Get(normalised_payload, "note"),
                     is_deleted |-> FALSE,
                     source |-> source]
         IN IF email \notin DOMAIN existing
            THEN <<[op |-> "insert", email |-> email, row |-> row]>>
            ELSE IF existing[email].checksum # row.checksum
                 THEN <<[op |-> "update", email |-> email, row |-> row]>>
            ELSE <<>>

\* an upsert that rewrites the row of every pushed email
UpsertStatement_Rewrites(email, normalised_accounts, existing, source) ==
    IF email \notin DOMAIN normalised_accounts THEN <<>>
    ELSE LET normalised_payload == normalised_accounts[email]
             serialised == _serialise_payload(normalised_payload)
             row == [data |-> serialised,
                     checksum |-> _checksum(serialised),
                     tags |-> _serialise_tags(Get(normalised_payload, "tags")),
                     note |-> Get(normalised_payload, "note"),
                     is_deleted |-> FALSE,
                     source |-> source]
         IN IF email \notin DOMAIN existing
            THEN <<[op |-> "insert", email |-> email, row |-> row]>>
            ELSE <<[op |-> "update", email |-> email, row |-> row]>>

\* sync.py 116-148: the INSERT or UPDATE of one local email, if any
UpsertStatement(email, normalised_accounts, existing, source) ==
    IF email \notin DOMAIN normalised_accounts THEN <<>>
    ELSE LET normalised_payload == normalised_accounts[email]
             serialised == _serialise_payload(normalised_payload)
             row == [data |-> serialised,
                     checksum |-> _checksum(serialised),
                     tags |-> _serialise_tags(Get(normalised_payload, "tags")),
                     note |-> Get(normalised_payload, "note"),
                     is_deleted |-> FALSE,
                     source |-> source]
         IN IF email \notin DOMAIN existing
            THEN <<[op |-> "insert", email |-> email, row |-> row]>>
            ELSE IF existing[email].checksum # row.checksum \/ existing[email].is_deleted
                 THEN <<[op |-> "update", email |-> email, row |-> row]>>
            ELSE <<>>

\* a soft delete that marks tombstones again
MarkDeletedStatement_MarksTombstones(email, normalised_accounts, existing, source) ==
    IF email \notin DOMAIN existing THEN <<>>
    ELSE IF email \in DOMAIN normalised_accounts THEN <<>>
    ELSE <<[op |-> "mark_deleted", email |-> email,
            tags |-> _serialise_tags(VList(<<>>)), source |-> source]>>

\* a push that leaves the rows of absent emails live
MarkDeletedStatement_KeepsLive(email, normalised_accounts, existing, source) == <<>>

\* sync.py 150-164: the soft delete of one remote email, if any
MarkDeletedStatement(email, normalised_accounts, existing, source) ==
    IF email \notin DOMAIN existing THEN <<>>
    ELSE IF email \in DOMAIN normalised_accounts \/ existing[email].is_deleted THEN <<>>
    ELSE <<[op |-> "mark_deleted", email |-> email,
            tags |-> _serialise_tags(VList(<<>>)), source |-> source]>>

\* tag statements that only add
_apply_tag_mutations_AddsOnly(email, existing, target) ==
    IF existing = target THEN <<>>
    ELSE IF target \ existing # {}
         THEN <<[op |-> "tag_insert", email |-> email, tags |-> target \ existing]>>
    ELSE <<>>

\* sync.py 573-608: the tag statements of one email, if any
_apply_tag_mutations(email, existing, target) ==
    IF existing = target THEN <<>>
    ELSE (IF target \ existing # {}
          THEN <<[op |-> "tag_insert", email |-> email, tags |-> target \ existing]>>
          ELSE <<>>)
         \o
         (IF existing \ target # {}
          THEN <<[op |-> "tag_delete", email |-> email, tags |-> existing \ target]>>
          ELSE <<>>)

\* tags reconciled for the pushed emails only
all_emails_for_tags_Current(existing, normalised_accounts) == DOMAIN normalised_accounts

\* sync.py 87: set(existing.keys()) | current_emails
all_emails_for_tags(existing, normalised_accounts) ==
    (DOMAIN existing) \cup (DOMAIN normalised_accounts)

\* sync.py 81-172: every statement a push executes, in order, decided from the
\* rows and tag rows read at its start
PushStatements(accounts, dbv, source) ==
    LET existing == dbv.rows
        snapshot == _prepare_tags_snapshot(accounts)
        normalised_accounts == snapshot.normalised_accounts
        tags_target == snapshot.tags_snapshot
        n == Len(EmailOrder)
    IN Flatten([i \in 1..n |->
                  UpsertStatement(EmailOrder[i], normalised_accounts, existing, source)])
       \o
       Flatten([i \in 1..n |->
                  MarkDeletedStatement(EmailOrder[i], normalised_accounts, existing, source)])
       \o
       Flatten([i \in 1..n |->
                  IF EmailOrder[i] \in all_emails_for_tags(existing, normalised_accounts)
                  THEN _apply_tag_mutations(
                         EmailOrder[i],
                         _fetch_existing_tags(dbv, EmailOrder[i]),
                         IF EmailOrder[i] \in DOMAIN tags_target
                         THEN tags_target[EmailOrder[i]] ELSE {})
                  ELSE <<>>])

\* the effect of one statement on the tables
Execute(stmt, dbv) ==
    CASE stmt.op = "insert" ->
           [dbv EXCEPT !.rows = Put(dbv.rows, stmt.email, stmt.row)]
      [] stmt.op = "update" ->
           IF stmt.email \in DOMAIN dbv.rows
           THEN [dbv EXCEPT !.rows = Put(dbv.rows, stmt.email, stmt.row)]
           ELSE dbv
      [] stmt.op = "mark_deleted" ->
           IF stmt.email \in DOMAIN dbv.rows
           THEN [dbv EXCEPT !.rows = Put(dbv.rows, stmt.email,
                    [dbv.rows[stmt.email] EXCEPT !.is_deleted = TRUE,
                                                 !.tags = stmt.tags,
                                                 !.note = None,
                                                 !.source = stmt.source])]
           ELSE dbv
      [] stmt.op = "tag_insert" ->
           [dbv EXCEPT !.tag_rows = dbv.tag_rows \cup {<<stmt.email, tag>> : tag \in stmt.tags}]
      [] stmt.op = "tag_delete" ->
           [dbv EXCEPT !.tag_rows = dbv.tag_rows \ {<<stmt.email, tag>> : tag \in stmt.tags}]

\* the tables after statements 1..k of a list
RECURSIVE ExecuteAll(_, _, _)
ExecuteAll(stmts, k, dbv) ==
    IF k = 0 THEN dbv ELSE Execute(stmts[k], ExecuteAll(stmts, k - 1, dbv))

\* a report that counts every rewritten row as added as well
PushReport_CountsTwice(stmts) ==
    LET N(op) == Cardinality({i \in 1..Len(stmts) : stmts[i].op = op})
    IN SyncReport(N("insert") + N("update"), N("update"), 0, 0, N("mark_deleted"))

\* sync.py 182-183
PushReport(stmts) ==
    LET N(op) == Cardinality({i \in 1..Len(stmts) : stmts[i].op = op})
    IN SyncReport(N("insert"), N("update"), 0, 0, N("mark_deleted"))

\* ------------------------------------------------------------------------
\* Inputs: account records and remote rows
\* ------------------------------------------------------------------------
T(word) == VStr(<<word>>)

\* {alice: tags=[work], status=active}
RecWork ==
    [refresh_token |-> T("r1"), client_id |-> T("c"),
     tags |-> VList(<<T("work")>>), status |-> T("a")]

\* tags out of order and repeated
RecTagsRepeated ==
    [refresh_token |-> T("r1"), client_id |-> T("c"),
     tags |-> VList(<<T("b"), T("a"), T("b")>>)]

\* tags out of order
RecTagsUnsorted ==
    [refresh_token |-> T("r1"), client_id |-> T("c"),
     tags |-> VList(<<T("b"), T("a")>>)]

\* a record as a caller may leave it on disk: nothing normalised
RecRaw ==
    [refresh_token |-> T("r1"), client_id |-> T("c"),
     tags |-> VList(<<VStr(<<" ", "a">>)>>),
     note |-> VStr(<<"n1", "CR", "LF">>),
     status |-> VStr(<<"x", " ">>),
     status_updated_at |-> VFloat(17, TRUE)]

\* the same record in normal form
RecNormal ==
    [refresh_token |-> T("r1"), client_id |-> T("c"),
     tags |-> VList(<<T("a")>>),
     note |-> T("n1"),
     status |-> T("x"),
     status_updated_at |-> VStr(<<"1", "7">>)]

\* other credentials, other tags, note, status and failures
RecOther ==
    [refresh_token |-> T("r2"), client_id |-> T("c"),
     tags |-> VList(<<T("a"), T("c")>>),
     note |-> T("n2"),
     status |-> T("a"),
     status_reason |-> T("x"),
     token_failures |-> VDict([count |-> VInt(2), last_status_code |-> VInt(4)])]

\* a failure count kept as a string
RecCountText ==
    [refresh_token |-> T("r1"), client_id |-> T("c"),
     tags |-> VList(<<>>),
     token_failures |-> VDict([count |-> VStr(<<"3">>)])]

\* other credentials, the same failures with an integer count
RecCountInt ==
    [refresh_token |-> T("r2"), client_id |-> T("c"),
     tags |-> VList(<<>>),
     token_failures |-> VDict([count |-> VInt(3)])]

LocalRecords ==
    {RecWork, RecTagsRepeated, RecTagsUnsorted, RecRaw, RecNormal, RecOther,
     RecCountText, RecCountInt}

\* records another instance has pushed
RemoteRecords == {RecWork, RecTagsUnsorted, RecNormal, RecOther, RecCountInt}

\* the row and the tag rows that a push of one record leaves behind
PushedRow(payload) ==
    (UpsertStatement("alice", [e \in {"alice"} |-> _normalise_payload(payload)],
                     EmptyDict, "manual")[1]).row

PushedTags(payload) == TagSet(_normalise_payload(payload)["tags"].items)

\* the row after a later push without the record
Tombstone(row) ==
    [row EXCEPT !.is_deleted = TRUE, !.tags = _serialise_tags(VList(<<>>)), !.note = None]

\* rows written by an earlier version or by hand
\* a checksum column that does not match the data
RowStaleChecksum ==
    [PushedRow(RecNormal) EXCEPT !.checksum = _checksum(_serialise_payload(EmptyDict))]

\* data that is not JSON
RowMalformed == [PushedRow(RecWork) EXCEPT !.data = RawText(<<"x">>)]

\* no data at all, and data that is JSON but not an object
RowEmpty == [PushedRow(RecWork) EXCEPT !.data = RawText(<<>>)]

RowNotObject == [PushedRow(RecWork) EXCEPT !.data = JsonDumps(VList(<<>>))]

\* a tags column that the tag relation does not mirror, a count kept as text
RowLegacy ==
    [data |-> JsonDumps(VDict([refresh_token |-> T("r1"), client_id |-> T("c"),
                               note |-> T("n1"),
                               token_failures |-> VDict([count |-> VStr(<<"3">>)])])),
     checksum |-> _checksum(_serialise_payload(EmptyDict)),
     tags |-> RawText(<<"a", ",", "b">>),
     note |-> None,
     is_deleted |-> FALSE,
     source |-> "manual"]

\* failures kept as a bare number
RowScalarFailures ==
    [PushedRow(RecCountInt) EXCEPT
        !.data = JsonDumps(VDict([RecCountInt EXCEPT !.token_failures = VInt(3)]))]

\* what the remote may hold for one email: nothing, or a row and its tags
NoRow == [present |-> FALSE]

RemoteEntry(row, tags) == [present |-> TRUE, row |-> row, tags |-> tags]

RemoteEntries ==
    {NoRow}
    \cup {RemoteEntry(PushedRow(r), PushedTags(r)) : r \in RemoteRecords}
    \cup {RemoteEntry(Tombstone(PushedRow(r)), {}) : r \in {RecWork, RecOther}}
    \cup {RemoteEntry(RowStaleChecksum, {<<"a">>}),
          RemoteEntry(RowStaleChecksum, {<<"b">>, <<"c">>}),
          RemoteEntry(RowMalformed, {<<"work">>}),
          RemoteEntry(RowEmpty, {}),
          RemoteEntry(RowNotObject, {<<"work">>}),
          RemoteEntry(RowLegacy, {}),
          RemoteEntry(PushedRow(RecTagsRepeated), {}),
          RemoteEntry(Tombstone(PushedRow(RecWork)), {<<"work">>}),
          RemoteEntry(RowScalarFailures, {})}

\* the second email holds one plain record, or none
RecBob == [refresh_token |-> T("r1"), client_id |-> T("c"), tags |-> VList(<<T("b")>>)]

BobRemoteEntries == {NoRow, RemoteEntry(PushedRow(RecBob), PushedTags(RecBob))}

\* the accounts map holding the given records
Accounts(alice, bob) ==
    [e \in {x \in Emails : (x = "alice" /\ alice # NoRow) \/ (x = "bob" /\ bob # NoRow)} |->
       IF e = "alice" THEN alice ELSE bob]

\* the tables holding the given entries
Tables(alice, bob, has_note_column) ==
    LET entry == [e \in Emails |-> IF e = "alice" THEN alice ELSE bob]
    IN [rows |-> [e \in {x \in Emails : entry[x].present} |-> entry[e].row],
        tag_rows |-> UNION {{<<e, tag>> : tag \in entry[e].tags} :
                            e \in {x \in Emails : entry[x].present}},
        has_tags_column |-> TRUE,
        has_note_column |-> has_note_column]

\* ------------------------------------------------------------------------
\* State
\* ------------------------------------------------------------------------
\* two instances of the application, each with its accounts file, its
\* synchronizer and its background executor, sharing one remote database
Stores == {"A", "B"}

\* request threads of the application instances
Threads == {"t1", "t2"}

\* jobs waiting in one executor
MaxQueue == 1

\* an executor with a second worker
max_workers_Two == 1 + 1

\* sync.py 26: ThreadPoolExecutor(max_workers=1)
max_workers == 1

VARIABLES
    files,              \* the accounts files, by path: email -> record
    conflict_strategy,  \* AccountSynchronizer._conflict_strategy of each instance
    enabled,            \* AccountSynchronizer.is_enabled of each instance
    path,               \* AccountRepository._path of each instance
    schema_ready,       \* AccountSynchronizer._schema_ready of each instance
    ensuring,           \* threads inside the body of _ensure_schema, and its runs
    db,                 \* committed contents of the remote database
    tx,                 \* the open push transaction, if any
    queue,              \* _sync_executor of each instance: submitted push jobs
    executing,          \* jobs the workers of each executor are running
    req,                \* the request each thread is serving, with its locals
    lock,               \* AccountRepository._lock of each instance: its holder
    last                \* the operation that has just returned, with its result

vars == <<files, conflict_strategy, enabled, path, schema_ready, ensuring, db, tx,
          queue, executing, req, lock, last>>

\* what no operation assigns after construction
config == <<conflict_strategy, enabled, path>>

NoTx == [open |-> FALSE]

NoResult == [op |-> "none"]

NoRequest == [pc |-> "idle"]

\* sync.py 53-57, repository.py 18-22, sync.py 26: nothing has run yet
Quiet ==
    /\ schema_ready = [s \in Stores |-> FALSE]
    /\ ensuring = [s \in Stores |-> [inside |-> {}, runs |-> 0]]
    /\ tx = NoTx
    /\ queue = [s \in Stores |-> <<>>]
    /\ executing = [s \in Stores |-> <<>>]
    /\ req = [th \in Threads |-> NoRequest]
    /\ lock = [s \in Stores |-> "free"]
    /\ last = NoResult

\* every instance has its own accounts file
OwnPath == [s \in Stores |-> s]

Init ==
    /\ \E alice \in LocalRecords \cup {NoRow}, bob \in {RecBob, NoRow} :
         files = [s \in Stores |-> IF s = "A" THEN Accounts(alice, bob) ELSE EmptyDict]
    /\ \E policy \in Policies :
         conflict_strategy = [s \in Stores |-> IF s = "A" THEN policy ELSE "prefer_remote"]
    /\ enabled = [s \in Stores |-> TRUE]
    /\ path = OwnPath
    /\ \E alice \in RemoteEntries, bob \in BobRemoteEntries :
         db = Tables(alice, bob, ~(alice = RemoteEntry(RowLegacy, {}) /\ bob = NoRow))
    /\ Quiet

\* repository.py 24-36: read_all of an instance
read_all(s) == files[path[s]]

\* sync.py 447-449, 512-513: the body of _ensure_schema runs when the flag is
\* not set yet
EnsureRuns(s) ==
    IF schema_ready[s] THEN ensuring
    ELSE [ensuring EXCEPT ![s] = [inside |-> @.inside, runs |-> @.runs + 1]]

\* sync.py 79 and 201: the schema is ensured once per synchronizer
SchemaEnsured(s) == IF schema_ready[s] THEN db ELSE _ensure_schema(db)

\* sync.py 75-88: a push connects, ensures the schema, reads the rows and the
\* tag rows, and decides its statements
BeginPush(s, thread, accounts, source) ==
    /\ ~tx.open
    /\ db' = SchemaEnsured(s)
    /\ schema_ready' = [schema_ready EXCEPT ![s] = TRUE]
    /\ ensuring' = EnsureRuns(s)
    /\ tx' = [open |-> TRUE, store |-> s, thread |-> thread, source |-> source,
              accounts |-> accounts, before |-> db, base |-> SchemaEnsured(s),
              stmts |-> PushStatements(accounts, SchemaEnsured(s), source),
              done |-> 0]
    /\ last' = NoResult

\* an instance that takes remote sync for configured whatever its settings
is_enabled_Always(s) == TRUE

\* sync.py 60-66: AccountSynchronizer.is_enabled
is_enabled(s) == enabled[s]

\* sync_ops.py 11-19, repository.py 58-61: the operator pushes the accounts file
ManualPushBegin(s) ==
    /\ is_enabled(s)
    /\ BeginPush(s, "manual", read_all(s), "manual")
    /\ UNCHANGED <<files, config, queue, executing, req, lock>>

\* a job a worker has taken, before and after its push began
Taken(job) == [job |-> job, stage |-> "taken"]

Pushing(job) == [job |-> job, stage |-> "push"]

\* the jobs of an executor that are in a stage
InStage(s, stage) == SelectSeq(executing[s], LAMBDA x : x.stage = stage)

NotInStage(s, stage) == SelectSeq(executing[s], LAMBDA x : x.stage # stage)

\* sync.py 26 and 189: a free worker of the executor takes the oldest job
WorkerTakeJob(s) ==
    /\ queue[s] # <<>>
    /\ Len(executing[s]) < max_workers
    /\ executing' = [executing EXCEPT ![s] = Append(@, Taken(Head(queue[s])))]
    /\ queue' = [queue EXCEPT ![s] = Tail(queue[s])]
    /\ last' = NoResult
    /\ UNCHANGED <<files, config, schema_ready, ensuring, db, tx, req, lock>>

\* sync.py 188: copy.deepcopy(accounts), the snapshot of a job
Snapshot(job) == job.accounts

\* sync.py 189 and 68-88: the worker runs sync_file_to_db on the snapshot of
\* its job
WorkerPushBegin(s) ==
    /\ InStage(s, "taken") # <<>>
    /\ BeginPush(s, "worker", Snapshot(Head(InStage(s, "taken")).job),
                 Head(InStage(s, "taken")).job.source)
    /\ executing' = [executing EXCEPT ![s] =
                        NotInStage(s, "taken") \o Tail(InStage(s, "taken"))
                        \o <<Pushing(Head(InStage(s, "taken")).job)>>]
    /\ UNCHANGED <<files, config, queue, req, lock>>

\* an executor that holds on to the job whose push has ended
Ended_KeepsJob(thread, s) == executing

\* the executor when the push of a transaction has ended
Ended(thread, s) ==
    IF thread = "worker"
    THEN [executing EXCEPT ![s] = NotInStage(s, "push")]
    ELSE executing

\* the request that submitted the job a worker is pushing
Submitter(thread, s) ==
    IF thread = "worker" THEN Head(InStage(s, "push")).job.owner ELSE "operator"

\* a done callback that raises into the request that submitted the job
_log_async_result_Raises(requests, owner) ==
    [th \in DOMAIN requests |->
        IF th = owner /\ requests[th].pc = "done"
        THEN [requests[th] EXCEPT !.result = "error"] ELSE requests[th]]

\* sync.py 996-1002: the done callback catches the exception of the job and
\* logs it
_log_async_result(requests, owner) == requests

\* sync.py 118-164, 590-608: the next statement executes inside the transaction
PushStatement ==
    /\ tx.open
    /\ tx.done < Len(tx.stmts)
    /\ tx' = [tx EXCEPT !.done = tx.done + 1]
    /\ last' = NoResult
    /\ UNCHANGED <<files, config, schema_ready, ensuring, db, queue, executing, req, lock>>

\* a rollback that keeps the statements executed so far
Rollback_KeepsExecuted(dbv, stmts, done) == ExecuteAll(stmts, done, dbv)

\* sync.py 176: connection.rollback() discards the statements of the transaction
Rollback(dbv, stmts, done) == dbv

\* sync.py 174: connection.commit() makes them visible together
Commit(dbv, stmts, done) == ExecuteAll(stmts, done, dbv)

\* sync.py 175-180: the next statement raises; rollback, and the exception is
\* raised to the caller of sync_file_to_db
PushStatementFails ==
    /\ tx.open
    /\ tx.done < Len(tx.stmts)
    /\ db' = Rollback(db, tx.stmts, tx.done)
    /\ tx' = NoTx
    /\ last' = [op |-> "push", store |-> tx.store, thread |-> tx.thread, ok |-> FALSE,
                raised |-> TRUE, accounts |-> tx.accounts, before |-> tx.before,
                base |-> tx.base,
                uncommitted |-> ExecuteAll(tx.stmts, tx.done, db),
                owner |-> Submitter(tx.thread, tx.store), error |-> "statement"]
    /\ executing' = Ended(tx.thread, tx.store)
    /\ req' = _log_async_result(req, Submitter(tx.thread, tx.store))
    /\ UNCHANGED <<files, config, schema_ready, ensuring, queue, lock>>

\* sync.py 174-183: every statement has executed; commit and report
PushCommit ==
    /\ tx.open
    /\ tx.done = Len(tx.stmts)
    /\ db' = Commit(db, tx.stmts, tx.done)
    /\ tx' = NoTx
    /\ last' = [op |-> "push", store |-> tx.store, thread |-> tx.thread, ok |-> TRUE,
                raised |-> FALSE, accounts |-> tx.accounts, before |-> tx.before,
                base |-> tx.base,
                source |-> tx.source, stmts |-> tx.stmts, report |-> PushReport(tx.stmts)]
    /\ executing' = Ended(tx.thread, tx.store)
    /\ UNCHANGED <<files, config, schema_ready, ensuring, queue, req, lock>>

\* repository.py 68-82: the accounts file of an instance is replaced
_write_to_disk(s, accounts) == [files EXCEPT ![path[s]] = accounts]

\* sync.py 185-191: a deep copy of the accounts is submitted to the executor
\* of the instance, unless sync is not enabled
enqueue_file_to_db(s, accounts, source, owner) ==
    IF is_enabled(s)
    THEN [queue EXCEPT ![s] = Append(@, [accounts |-> accounts, source |-> source,
                                         owner |-> owner])]
    ELSE queue

\* a pull that writes the merged map whatever the merge reported
ShouldWrite_Always(changed) == TRUE

\* sync_ops.py 31: if changed
ShouldWrite(changed) == changed

\* repository.py 63-66, sync_ops.py 28-34: what a pull does with the result of
\* sync_db_to_file
PullApply(s, dbv, result) ==
    /\ ShouldWrite(result.changed) => Len(queue[s]) < MaxQueue /\ lock[s] = "free"
    /\ db' = dbv
    /\ schema_ready' = [schema_ready EXCEPT ![s] = TRUE]
    /\ ensuring' = EnsureRuns(s)
    /\ files' = IF ShouldWrite(result.changed)
                THEN _write_to_disk(s, result.merged) ELSE files
    /\ queue' = IF ShouldWrite(result.changed)
                THEN enqueue_file_to_db(s, result.merged, "pull", "operator")
                ELSE queue
    /\ last' = [op |-> "pull", store |-> s, ok |-> TRUE, owner |-> "operator",
                error |-> "none", local |-> read_all(s),
                remote |-> dbv, merged |-> result.merged,
                report |-> result.report, changed |-> result.changed,
                counted |-> result.counted, set_changed |-> result.set_changed,
                policy |-> conflict_strategy[s],
                \* the pull follows a committed push of the same records
                follows_push |-> last.op = "push" /\ last.ok
                                 /\ last.accounts = read_all(s)]
    /\ UNCHANGED <<config, tx, executing, req, lock>>

\* sync.py 199-228: the schema step has committed and the connection is
\* closed when a row raises; the exception leaves sync_db_to_file and the pull
PullRaises(s, dbv) ==
    /\ db' = dbv
    /\ schema_ready' = [schema_ready EXCEPT ![s] = TRUE]
    /\ ensuring' = EnsureRuns(s)
    /\ last' = [op |-> "pull", store |-> s, ok |-> FALSE, owner |-> "operator",
                error |-> "payload", local |-> read_all(s), remote |-> dbv,
                policy |-> conflict_strategy[s]]
    /\ UNCHANGED <<files, config, tx, queue, executing, req, lock>>

\* sync_ops.py 22-35, repository.py 63-66 and 38-40, 84-92: the operator pulls;
\* the merged map is written and a push of it is queued only when it changed
Pull(s) ==
    /\ is_enabled(s)
    /\ IF PayloadRaises(SchemaEnsured(s))
       THEN PullRaises(s, SchemaEnsured(s))
       ELSE PullApply(s, SchemaEnsured(s),
                      sync_db_to_file(read_all(s), SchemaEnsured(s), conflict_strategy[s]))

\* one instance runs against the remote database
Next ==
    \/ ManualPushBegin("A")
    \/ WorkerTakeJob("A")
    \/ WorkerPushBegin("A")
    \/ PushStatement
    \/ PushStatementFails
    \/ PushCommit
    \/ Pull("A")

Spec == Init /\ [][Next]_vars

\* ------------------------------------------------------------------------
\* Properties of a push
\* ------------------------------------------------------------------------
PushReturned == last.op = "push" /\ last.ok

\* checksum of the normalised record of a pushed email
PushedChecksum(e) == _checksum(_serialise_payload(_normalise_payload(last.accounts[e])))

\* the row a push writes for a pushed email
WrittenRow(e) ==
    LET n == _normalise_payload(last.accounts[e])
    IN [data |-> _serialise_payload(n), checksum |-> PushedChecksum(e),
        tags |-> _serialise_tags(n["tags"]), note |-> Get(n, "note"),
        is_deleted |-> FALSE, source |-> last.source]

\* pushed emails with no row, with a row to rewrite, with a row to leave alone
PushNew == {e \in DOMAIN last.accounts : e \notin DOMAIN last.base.rows}

PushStale ==
    {e \in DOMAIN last.accounts :
        /\ e \in DOMAIN last.base.rows
        /\ (last.base.rows[e].checksum # PushedChecksum(e) \/ last.base.rows[e].is_deleted)}

PushSame ==
    {e \in DOMAIN last.accounts :
        /\ e \in DOMAIN last.base.rows
        /\ last.base.rows[e].checksum = PushedChecksum(e)
        /\ ~last.base.rows[e].is_deleted}

\* C1: after a successful push of snapshot S against remote state R, every
\* email of S with no row in R has a live row and is counted in added; every
\* email of S whose row in R has another checksum or is a tombstone is
\* rewritten with is_deleted cleared and counted in updated; every email of S
\* whose row is live with an equal checksum keeps its row and is not counted.
C1_PushUpserts ==
    PushReturned =>
        /\ \A e \in PushNew \cup PushStale : e \in DOMAIN db.rows /\ db.rows[e] = WrittenRow(e)
        /\ \A e \in PushSame : db.rows[e] = last.base.rows[e]
        /\ last.report.added = Cardinality(PushNew)
        /\ last.report.updated = Cardinality(PushStale)

\* a push that inserted one email and revived the tombstone of another
C1_Witness ==
    /\ PushReturned
    /\ PushNew # {}
    /\ \E e \in PushStale : last.base.rows[e].is_deleted /\ ~db.rows[e].is_deleted

\* remote emails absent from the pushed snapshot
PushAbsent == {e \in DOMAIN last.base.rows : e \notin DOMAIN last.accounts}

\* C2: a push removes no row of the main table; every remote email absent
\* from the pushed snapshot and not yet a tombstone becomes a tombstone
\* (is_deleted set, tags column emptied, note cleared) and is counted in
\* marked_deleted; tombstones absent from the snapshot are left as they were
\* and are not counted.
C2_PushSoftDeletes ==
    PushReturned =>
        /\ DOMAIN last.base.rows \subseteq DOMAIN db.rows
        /\ \A e \in PushAbsent :
             IF last.base.rows[e].is_deleted THEN db.rows[e] = last.base.rows[e]
             ELSE db.rows[e] = [last.base.rows[e] EXCEPT
                                   !.is_deleted = TRUE,
                                   !.tags = JsonDumps(VList(<<>>)),
                                   !.note = None,
                                   !.source = last.source]
        /\ last.report.marked_deleted =
             Cardinality({e \in PushAbsent : ~last.base.rows[e].is_deleted})

\* a push that turned a live row with tags and a note into a tombstone
C2_Witness ==
    /\ PushReturned
    /\ \E e \in PushAbsent :
         /\ ~last.base.rows[e].is_deleted
         /\ last.base.rows[e].note # None
         /\ last.base.rows[e].tags # JsonDumps(VList(<<>>))
         /\ db.rows[e].is_deleted
    /\ last.report.marked_deleted = 1

\* the tags of an email in a tag relation
TagsOf(dbv, e) == {pair[2] : pair \in {q \in dbv.tag_rows : q[1] = e}}

\* the tags a record normalises to
NormalTags(payload) ==
    LET tags == _normalise_payload(payload)["tags"].items
    IN {tags[i].v : i \in 1..Len(tags)}

\* C3: after a successful push the tag relation holds, for every pushed
\* email, exactly the set of the record's normalised tags, whatever rows it
\* held before; and no tag statement is issued for an email whose tag rows
\* equalled that set already.
C3_PushReconcilesTags ==
    PushReturned =>
        /\ \A e \in DOMAIN last.accounts : TagsOf(db, e) = NormalTags(last.accounts[e])
        /\ \A i \in 1..Len(last.stmts) :
             (last.stmts[i].op \in {"tag_insert", "tag_delete"}
              /\ last.stmts[i].email \in DOMAIN last.accounts)
             => TagsOf(last.base, last.stmts[i].email)
                  # NormalTags(last.accounts[last.stmts[i].email])

\* local tags {a, b} pushed over remote tags {b, c} left exactly {a, b}
C3_Witness ==
    /\ PushReturned
    /\ "alice" \in DOMAIN last.accounts
    /\ TagsOf(last.base, "alice") = {<<"b">>, <<"c">>}
    /\ NormalTags(last.accounts["alice"]) = {<<"a">>, <<"b">>}
    /\ TagsOf(db, "alice") = {<<"a">>, <<"b">>}

PushRaised == last.op = "push" /\ ~last.ok

\* C4 as stated: after a push in which a statement failed, the main table and
\* the tag relation are as they were before the push.
C4_AsBeforeThePush == PushRaised => db = last.before

\* C4: a statement of an open push transaction changes nothing that another
\* connection can read; when a statement fails the exception is raised and the
\* main table and the tag relation are as the schema step of that push left
\* them; only the commit makes the statements visible.
C4_PushAllOrNothing ==
    [][tx.open =>
         /\ tx'.open => db' = db
         /\ (~tx'.open /\ ~last'.ok) => (db' = tx.base /\ last'.raised)
         /\ (~tx'.open /\ last'.ok) => tx.done = Len(tx.stmts)]_vars

\* a failed push whose transaction had written a row or a tag row
C4_Witness ==
    /\ PushRaised
    /\ last.raised
    /\ last.uncommitted # db
    /\ db = last.base

\* ------------------------------------------------------------------------
\* Properties of a pull
\* ------------------------------------------------------------------------
PullReturned == last.op = "pull" /\ last.ok

\* the remote record a pull read for an email
Remote(e) == RemoteRecord(last.remote, e)

\* checksum of the normalised local record of a pull
LocalChecksum(e) == _checksum(_serialise_payload(_normalise_payload(last.local[e])))

\* emails of a pull by case: tombstones, live rows unknown locally, live rows
\* known locally with an equal or another checksum
PullTombstones == {e \in ReadableRows(last.remote) : Remote(e).is_deleted}

PullRemoteOnly ==
    {e \in ReadableRows(last.remote) : ~Remote(e).is_deleted /\ e \notin DOMAIN last.local}

PullSame ==
    {e \in ReadableRows(last.remote) :
        /\ ~Remote(e).is_deleted
        /\ e \in DOMAIN last.local
        /\ LocalChecksum(e) = Remote(e).checksum}

PullConflicts ==
    {e \in ReadableRows(last.remote) :
        /\ ~Remote(e).is_deleted
        /\ e \in DOMAIN last.local
        /\ LocalChecksum(e) # Remote(e).checksum}

\* the fields a prefer_local merge may take from the remote record
NonAuthoritative ==
    {"tags", "note", "status", "status_updated_at", "status_reason", "token_failures"}

\* C5: under prefer_local, a record present on both sides with different
\* checksums and no tombstone keeps its refresh_token, its client_id and every
\* other field outside tags, note, status, status_updated_at, status_reason and
\* token_failures; it is counted in updated and sets changed exactly when one
\* of those fields differs from the local record afterwards, and is counted in
\* skipped otherwise.
C5_PreferLocalKeepsCredentials ==
    (PullReturned /\ last.policy = "prefer_local") =>
        \A e \in PullConflicts :
            /\ e \in DOMAIN last.merged
            /\ \A k \in (DOMAIN last.local[e] \cup DOMAIN last.merged[e]) \ NonAuthoritative :
                 Get(last.merged[e], k) = Get(last.local[e], k)
            /\ IF \E k \in NonAuthoritative : Get(last.merged[e], k) # Get(last.local[e], k)
               THEN last.counted[e] = "updated" /\ last.set_changed[e] /\ last.changed
               ELSE last.counted[e] = "skipped" /\ ~last.set_changed[e]

\* C6: a remote tombstone for an email unknown locally changes nothing and
\* counts nothing; for a local email, prefer_local keeps the local record as
\* it is and counts skipped, prefer_remote removes it, counts removed and sets
\* changed.
C6_PullTombstones ==
    PullReturned =>
        \A e \in PullTombstones :
            IF e \notin DOMAIN last.local
            THEN e \notin DOMAIN last.merged /\ last.counted[e] = "none" /\ ~last.set_changed[e]
            ELSE IF last.policy = "prefer_local"
                 THEN /\ e \in DOMAIN last.merged
                      /\ last.merged[e] = last.local[e]
                      /\ last.counted[e] = "skipped"
                      /\ ~last.set_changed[e]
            ELSE /\ e \notin DOMAIN last.merged
                 /\ last.counted[e] = "removed"
                 /\ last.set_changed[e]
                 /\ last.changed

\* C7: a live remote record whose checksum equals the checksum of the
\* normalised local record leaves the local record as it is, counts nothing
\* and does not set changed, under either policy.
C7_EqualChecksumsNoOp ==
    PullReturned =>
        \A e \in PullSame :
            /\ e \in DOMAIN last.merged
            /\ last.merged[e] = last.local[e]
            /\ last.counted[e] = "none"
            /\ ~last.set_changed[e]

\* C8: a live remote record whose email is unknown locally is adopted as the
\* normalised remote payload, counted in added, and sets changed; pushing
\* {alice: tags [work], status active} to an empty remote reports added = 1,
\* and pulling that remote into an empty local store reports added = 1 and
\* yields alice with tags [work].
C8_RemoteOnlyAdopted ==
    /\ PullReturned =>
         /\ \A e \in PullRemoteOnly :
              /\ e \in DOMAIN last.merged
              /\ last.merged[e] = Remote(e).data
              /\ _normalise_payload(last.merged[e]) = last.merged[e]
              /\ last.counted[e] = "added"
              /\ last.set_changed[e]
              /\ last.changed
         /\ last.report.added = Cardinality(PullRemoteOnly)
    /\ (PushReturned /\ last.accounts = Accounts(RecWork, NoRow) /\ last.base.rows = EmptyDict)
         => /\ last.report.added = 1
            /\ db.rows = Tables(RemoteEntry(PushedRow(RecWork), PushedTags(RecWork)),
                                NoRow, TRUE).rows
            /\ db.tag_rows = {<<"alice", <<"work">>>>}
    /\ (PullReturned /\ last.local = EmptyDict
          /\ last.remote.rows = Tables(RemoteEntry(PushedRow(RecWork), PushedTags(RecWork)),
                                      NoRow, TRUE).rows
          /\ last.remote.tag_rows = {<<"alice", <<"work">>>>})
         => /\ last.report.added = 1
            /\ DOMAIN last.merged = {"alice"}
            /\ last.merged["alice"]["tags"] = VList(<<T("work")>>)

\* a pull into an empty local store of the remote that a push of alice left
C8_Witness ==
    /\ PullReturned
    /\ last.local = EmptyDict
    /\ last.remote.rows = Tables(RemoteEntry(PushedRow(RecWork), PushedTags(RecWork)),
                                 NoRow, TRUE).rows
    /\ PullRemoteOnly = {"alice"}
    /\ last.merged["alice"]["tags"] = VList(<<T("work")>>)
    /\ last.report.added = 1
    /\ last.changed

\* C9: under prefer_remote, a record present on both sides with different
\* checksums and no tombstone is replaced by the remote record, credentials
\* included, is counted in updated and sets changed.
C9_PreferRemoteReplaces ==
    (PullReturned /\ last.policy = "prefer_remote") =>
        \A e \in PullConflicts :
            /\ e \in DOMAIN last.merged
            /\ last.merged[e] = Remote(e).data
            /\ \A k \in {"refresh_token", "client_id"} :
                 Get(last.merged[e], k) = Get(Remote(e).data, k)
            /\ last.counted[e] = "updated"
            /\ last.set_changed[e]
            /\ last.changed

\* a prefer_remote pull that replaced the local refresh_token with the remote one
C9_Witness ==
    /\ PullReturned
    /\ last.policy = "prefer_remote"
    /\ \E e \in PullConflicts :
         /\ last.local[e]["refresh_token"] # Remote(e).data["refresh_token"]
         /\ last.merged[e]["refresh_token"] = Remote(e).data["refresh_token"]
         /\ last.counted[e] = "updated"

\* C10: a pull that follows a committed push of the same local records, with
\* no other writer in between, reports changed = false and added = updated =
\* removed = 0, whatever the order and multiplicity of the tags and under
\* either policy.
C10_PushThenPullConverges ==
    (PullReturned /\ last.follows_push) =>
        /\ ~last.changed
        /\ last.report.added = 0
        /\ last.report.updated = 0
        /\ last.report.removed = 0

\* ------------------------------------------------------------------------
\* Properties of the operator pull
\* ------------------------------------------------------------------------
\* the job a pull submits for the map it wrote
CascadingJob == [accounts |-> last'.merged, source |-> "pull", owner |-> "operator"]

\* C12: a pull writes the merged map to the accounts file and submits a push
\* of it exactly when the merge reported changed; when it reported no change
\* the file is not written and no job is submitted.
C12_PullWritesIffChanged ==
    [][(last'.op = "pull" /\ last'.ok) =>
          /\ last'.changed =>
               /\ files' = [files EXCEPT ![path[last'.store]] = last'.merged]
               /\ queue' = [queue EXCEPT ![last'.store] = Append(@, CascadingJob)]
          /\ ~last'.changed => files' = files /\ queue' = queue]_vars

\* a pull of a remote that has rows reported no change and left the file and
\* the queue alone
C12_Witness ==
    /\ PullReturned
    /\ ~last.changed
    /\ DOMAIN last.remote.rows # {}
    /\ read_all(last.store) = last.local
    /\ queue[last.store] = <<>>

\* ------------------------------------------------------------------------
\* Local mutations, step by step
\* ------------------------------------------------------------------------
\* what a request thread leaves alone on the remote side
remote == <<schema_ready, ensuring, db, tx, executing>>

\* a request that has returned
Done(r, result) == [r EXCEPT !.pc = "done", !.result = result]

\* service.py 82-93, 95-97, 99-112, 114-116: a request arrives; register and
\* delete go to the repository at once, the updates read the file first
Begin(th, s, op, email, arg) ==
    /\ req[th].pc = "idle"
    /\ req' = [req EXCEPT ![th] =
                 [pc |-> IF op \in {"update_tags", "update_note"} THEN "read" ELSE "lock",
                  op |-> op, proc |-> s, email |-> email, arg |-> arg,
                  existing |-> IF op = "register" THEN arg ELSE EmptyDict,
                  accounts |-> EmptyDict, result |-> "none"]]
    /\ last' = NoResult
    /\ UNCHANGED <<files, config, remote, queue, lock>>

\* service.py 107-111: the note is stripped; an empty note removes the field
WithNewNote(record, note) ==
    IF note.t = "str" /\ Strip(note.v) # <<>>
    THEN Put(record, "note", VStr(Strip(note.v)))
    ELSE Pop(record, "note")

\* tagging.py 15-23: a copy of the record with the requested tags
WithNewTags(record, tags) == Put(record, "tags", tags)

\* tagging.py 14-23, service.py 100-111: what the request will save, computed
\* from the record it read
Updated(op, record, arg) ==
    IF op = "update_tags" THEN WithNewTags(record, arg) ELSE WithNewNote(record, arg)

\* service.py 43-46 and tagging.py 14, service.py 100-102: the service reads
\* the file, outside the lock of the repository
ServiceRead(th) ==
    /\ req[th].pc = "read"
    /\ req' = [req EXCEPT ![th] =
                 IF req[th].email \notin DOMAIN read_all(req[th].proc)
                 THEN Done(req[th], "not_found")
                 ELSE [req[th] EXCEPT
                         !.pc = "lock",
                         !.existing = Updated(req[th].op,
                                              read_all(req[th].proc)[req[th].email],
                                              req[th].arg)]]
    /\ last' = NoResult
    /\ UNCHANGED <<files, config, remote, queue, lock>>

\* repository.py 43 and 50: with self._lock
Acquire(th) ==
    /\ req[th].pc = "lock"
    /\ lock[req[th].proc] = "free"
    /\ lock' = [lock EXCEPT ![req[th].proc] = th]
    /\ req' = [req EXCEPT ![th] = [req[th] EXCEPT !.pc = "locked"]]
    /\ last' = NoResult
    /\ UNCHANGED <<files, config, remote, queue>>

\* repository.py 44-45 and 51-54: the map read under the lock, with the record
\* stored or removed
Mutated(op, accounts, email, record) ==
    IF op = "delete" THEN Pop(accounts, email) ELSE Put(accounts, email, record)

\* a repository whose delete of an unknown email goes on as a delete of a known
\* one: the map is written back and submitted
LockedRead_DeletesUnknown(th) ==
    /\ req[th].pc = "locked"
    /\ req' = [req EXCEPT ![th] =
                 [req[th] EXCEPT
                    !.pc = "write",
                    !.accounts = Mutated(req[th].op, read_all(req[th].proc),
                                         req[th].email, req[th].existing)]]
    /\ last' = NoResult
    /\ UNCHANGED <<files, config, remote, queue, lock>>

\* repository.py 44-45 and 51-54: the repository reads the file under its
\* lock and changes the map; a delete of an unknown email raises
LockedRead(th) ==
    /\ req[th].pc = "locked"
    /\ IF req[th].op = "delete" /\ req[th].email \notin DOMAIN read_all(req[th].proc)
       THEN /\ req' = [req EXCEPT ![th] = Done(req[th], "not_found")]
            /\ lock' = [lock EXCEPT ![req[th].proc] = "free"]
       ELSE /\ req' = [req EXCEPT ![th] =
                         [req[th] EXCEPT
                            !.pc = "write",
                            !.accounts = Mutated(req[th].op, read_all(req[th].proc),
                                                 req[th].email, req[th].existing)]]
            /\ UNCHANGED lock
    /\ last' = NoResult
    /\ UNCHANGED <<files, config, remote, queue>>

\* repository.py 46 and 55, 72-82: the file is replaced and the lock released
Write(th) ==
    /\ req[th].pc = "write"
    /\ files' = _write_to_disk(req[th].proc, req[th].accounts)
    /\ lock' = [lock EXCEPT ![req[th].proc] = "free"]
    /\ req' = [req EXCEPT ![th] = [req[th] EXCEPT !.pc = "enqueue"]]
    /\ last' = NoResult
    /\ UNCHANGED <<config, remote, queue>>

\* a failed write that is swallowed: the request goes on to submit the map
Raised_Swallowed(r) == [r EXCEPT !.pc = "enqueue", !.result = "error"]

\* repository.py 46 and 55: the exception of the write leaves save_account
\* and delete_account before _sync_to_database is reached
Raised(r) == Done(r, "error")

\* repository.py 76-82: writing the temporary file raises; the file stays,
\* the lock is released and the exception reaches the request
WriteFails(th) ==
    /\ req[th].pc = "write"
    /\ lock' = [lock EXCEPT ![req[th].proc] = "free"]
    /\ req' = [req EXCEPT ![th] = Raised(req[th])]
    /\ last' = NoResult
    /\ UNCHANGED <<files, config, remote, queue>>

\* repository.py 47 and 56, 84-92: after the lock is released the written map
\* is submitted for a push, and the request returns
Enqueue(th) ==
    /\ req[th].pc = "enqueue"
    /\ is_enabled(req[th].proc) => Len(queue[req[th].proc]) < MaxQueue
    /\ queue' = enqueue_file_to_db(req[th].proc, req[th].accounts, "mutation", th)
    /\ req' = [req EXCEPT ![th] = Done(req[th], "ok")]
    /\ last' = NoResult
    /\ UNCHANGED <<files, config, remote, lock>>

\* sync.py 75 and 892-910: the connection of a background push cannot be
\* opened, or its schema cannot be ensured; the job ends with the exception
WorkerConnectFails(s) ==
    /\ InStage(s, "taken") # <<>>
    /\ executing' = [executing EXCEPT ![s] =
                        NotInStage(s, "taken") \o Tail(InStage(s, "taken"))]
    /\ req' = _log_async_result(req, Head(InStage(s, "taken")).job.owner)
    /\ last' = [op |-> "push", store |-> s, thread |-> "worker", ok |-> FALSE,
                raised |-> TRUE, accounts |-> Head(InStage(s, "taken")).job.accounts,
                before |-> db, base |-> db, uncommitted |-> db,
                owner |-> Head(InStage(s, "taken")).job.owner, error |-> "connection"]
    /\ UNCHANGED <<files, config, schema_ready, ensuring, db, tx, queue, lock>>

\* sync_ops.py 12 and 38-40, service.py 126-129: a manual push of an instance
\* without remote sync is refused
ManualPushDisabled(s) ==
    /\ ~is_enabled(s)
    /\ last' = [op |-> "push", store |-> s, thread |-> "manual", ok |-> FALSE,
                raised |-> TRUE, accounts |-> read_all(s),
                before |-> db, base |-> db, uncommitted |-> db,
                owner |-> "operator", error |-> "not_configured"]
    /\ UNCHANGED <<files, config, remote, queue, req, lock>>

\* sync_ops.py 23 and 38-40, service.py 126-129: a manual pull of an instance
\* without remote sync is refused
PullDisabled(s) ==
    /\ ~is_enabled(s)
    /\ last' = [op |-> "pull", store |-> s, ok |-> FALSE, owner |-> "operator",
                error |-> "not_configured", local |-> read_all(s), remote |-> db]
    /\ UNCHANGED <<files, config, remote, queue, req, lock>>

\* the requests the threads serve
NewTags == VList(<<T("vip")>>)

NewNote == T("memo")

RecNew == [refresh_token |-> T("r3"), client_id |-> T("c"), tags |-> VList(<<>>),
           status |-> T("a")]

Requests(th) ==
    IF th = "t1"
    THEN {<<"update_tags", "alice", NewTags>>, <<"register", "bob", RecNew>>,
          <<"delete", "alice", None>>}
    ELSE {<<"update_note", "alice", NewNote>>, <<"register", "alice", RecNew>>}

\* both instances are configured with the accounts file of "A"
SharedPath == [s \in Stores |-> "A"]

\* the instance that serves the requests of a thread: two threads of one
\* process, or one thread in each of two processes that share the file
ProcessOf(th) == IF path = SharedPath /\ th = "t2" THEN "B" ELSE "A"

\* one accounts file that two threads of one process, or two processes,
\* change, and an empty remote
InitLocal ==
    /\ \E bob \in {RecBob, NoRow} :
         files = [s \in Stores |-> IF s = "A" THEN Accounts(RecNormal, bob) ELSE EmptyDict]
    /\ conflict_strategy = [s \in Stores |-> "prefer_remote"]
    /\ enabled = [s \in Stores |-> TRUE]
    /\ path \in {OwnPath, SharedPath}
    /\ db = Tables(NoRow, NoRow, TRUE)
    /\ Quiet

\* the steps of the requests that some threads serve
RequestStep(serving) ==
    \/ \E th \in serving : \E r \in Requests(th) :
          Begin(th, ProcessOf(th), r[1], r[2], r[3])
    \/ \E th \in serving : ServiceRead(th)
    \/ \E th \in serving : Acquire(th)
    \/ \E th \in serving : LockedRead(th)
    \/ \E th \in serving : Write(th)
    \/ \E th \in serving : WriteFails(th)
    \/ \E th \in serving : Enqueue(th)

\* the steps of the executors
WorkerStep ==
    \/ \E s \in Stores : WorkerTakeJob(s)
    \/ \E s \in Stores : WorkerPushBegin(s)
    \/ \E s \in Stores : WorkerConnectFails(s)
    \/ PushStatement
    \/ PushStatementFails
    \/ PushCommit

NextLocal == RequestStep(Threads) \/ WorkerStep

SpecLocal == InitLocal /\ [][NextLocal]_vars

\* one instance, with or without remote sync
InitConfigured ==
    /\ files = [s \in Stores |-> IF s = "A" THEN Accounts(RecNormal, RecBob) ELSE EmptyDict]
    /\ conflict_strategy = [s \in Stores |-> "prefer_remote"]
    /\ \E on \in BOOLEAN : enabled = [s \in Stores |-> on]
    /\ path = OwnPath
    /\ \E alice \in {NoRow, RemoteEntry(PushedRow(RecOther), PushedTags(RecOther))} :
         db = Tables(alice, NoRow, TRUE)
    /\ Quiet

NextConfigured ==
    \/ RequestStep({"t1"})
    \/ WorkerStep
    \/ ManualPushBegin("A")
    \/ Pull("A")
    \/ ManualPushDisabled("A")
    \/ PullDisabled("A")

SpecConfigured == InitConfigured /\ [][NextConfigured]_vars

\* ------------------------------------------------------------------------
\* Properties of the local mutations and of the background pushes
\* ------------------------------------------------------------------------
\* the job a request submits for the map it wrote
MutationJob(th) == [accounts |-> req[th].accounts, source |-> "mutation", owner |-> th]

\* the steps of a request: its write, its failed write, its submit
Writes(th) == req[th].pc = "write" /\ req'[th].pc = "enqueue"

WriteRaises(th) == req[th].pc = "write" /\ req'[th].pc = "done"

Submits(th) == req[th].pc = "enqueue" /\ req'[th].pc = "done"

BackgroundFailure(r) == r.op = "push" /\ r.thread = "worker" /\ ~r.ok

\* C15: when a background push ends with an exception, at its connection or
\* inside its transaction, the request that submitted the job has returned
\* success and stays so, no request is touched, and the accounts files keep
\* what the mutations wrote.
C15_BackgroundFailureStaysBehind ==
    [][BackgroundFailure(last') =>
          /\ req' = req
          /\ files' = files
          /\ last'.owner \in Threads =>
               /\ req'[last'.owner].pc = "done"
               /\ req'[last'.owner].result = "ok"]_vars

\* the push of the job of a successful mutation failed, and the file still
\* holds the record set of that mutation, which the remote never received
C15_Witness ==
    /\ BackgroundFailure(last)
    /\ last.owner \in Threads
    /\ req[last.owner].result = "ok"
    /\ read_all(last.store) = last.accounts
    /\ DOMAIN last.accounts # {}
    /\ DOMAIN db.rows = {}

\* a manual push or pull has just been refused for want of configuration
Refused(r) == r.op \in {"push", "pull"} /\ ~r.ok /\ r.error = "not_configured"

\* C16: in an instance whose remote sync is not enabled no manual push opens
\* a transaction and no manual pull returns a result; the refusal touches
\* neither the remote database, nor the schema flag, nor the accounts files,
\* nor the queues; a local mutation there still returns success, and submits
\* no job.
C16_NotConfigured ==
    [][/\ (tx'.open /\ ~tx.open /\ tx'.thread = "manual") => enabled[tx'.store]
       /\ (last'.op = "pull" /\ last'.ok) => enabled[last'.store]
       /\ Refused(last') =>
            /\ ~enabled[last'.store]
            /\ UNCHANGED <<files, remote, queue, req, lock>>
       /\ \A th \in Threads :
            (Submits(th) /\ ~enabled[req[th].proc]) =>
                /\ req'[th].result = "ok"
                /\ queue' = queue
                /\ queue[req[th].proc] = <<>>
                /\ files' = files]_vars

\* without remote sync a request has stored its record set and returned
\* success, nothing is queued, and a manual pull has been refused
C16_Witness ==
    /\ ~enabled["A"]
    /\ req["t1"].pc = "done"
    /\ req["t1"].result = "ok"
    /\ req["t1"].op = "register"
    /\ read_all("A") = req["t1"].accounts
    /\ queue["A"] = <<>>
    /\ last.op = "pull"
    /\ ~last.ok

\* a request of a kind for an email has returned success
Served(th, op, email) ==
    /\ req[th].pc = "done"
    /\ req[th].result = "ok"
    /\ req[th].op = op
    /\ req[th].email = email

\* C18: after a tag update and a note update of the same account have both
\* returned success in one process, with no other writer of that account, the
\* stored record carries the new tags and the new note.
C18_BothUpdatesKept ==
    (path = OwnPath /\ Served("t1", "update_tags", "alice")
                    /\ Served("t2", "update_note", "alice")) =>
        /\ Get(read_all("A")["alice"], "tags") = NewTags
        /\ Get(read_all("A")["alice"], "note") = NewNote

\* C19: after a process has saved one account and another process, sharing
\* the accounts file, has saved another account, both starting from the same
\* file contents and both returning success, the file holds both records.
C19_BothSavesKept ==
    (path = SharedPath /\ Served("t1", "register", "bob")
                       /\ Served("t2", "register", "alice")) =>
        /\ Get(read_all("A"), "bob") = RecNew
        /\ Get(read_all("A"), "alice") = RecNew

\* the jobs that the workers of all executors are running
Running == UNION {{<<s, x>> : x \in 1..Len(executing[s])} : s \in Stores}

\* a background push of an instance has just committed
BackgroundCommit(r, s) == r.op = "push" /\ r.ok /\ r.thread = "worker" /\ r.store = s

Pushed(record) ==
    IF record = NoRow THEN NoRow ELSE RemoteEntry(PushedRow(record), PushedTags(record))

\* both instances hold the same accounts, and the remote database holds what
\* a push of them left
InitStores ==
    /\ \E alice \in {RecWork, RecNormal, RecCountText}, bob \in {RecBob, NoRow} :
         /\ files = [s \in Stores |-> Accounts(alice, bob)]
         /\ db = Tables(Pushed(alice), Pushed(bob), TRUE)
    /\ \E policy \in Policies :
         conflict_strategy = [s \in Stores |-> IF s = "B" THEN policy ELSE "prefer_remote"]
    /\ enabled = [s \in Stores |-> TRUE]
    /\ path = OwnPath
    /\ Quiet

\* instance "A" serves requests and pushes, instance "B" pulls
NextStores ==
    \/ RequestStep({"t1"})
    \/ WorkerStep
    \/ ManualPushBegin("A")
    \/ Pull("B")

SpecStores == InitStores /\ [][NextStores]_vars

\* C11: when instance B pulls a tombstone of an account it holds, left by the
\* push of a delete in instance A, the account is gone from the file of B
\* under prefer_remote, and is still in the file of B, with its credentials,
\* under prefer_local.
C11_TombstoneReachesOtherStore ==
    (PullReturned /\ last.store = "B") =>
        \A e \in PullTombstones \cap DOMAIN last.local :
            IF last.policy = "prefer_remote"
            THEN e \notin DOMAIN read_all("B")
            ELSE /\ e \in DOMAIN read_all("B")
                 /\ Get(read_all("B")[e], "refresh_token") = Get(last.local[e], "refresh_token")

\* the delete of alice in A was pushed by the worker of A, and the pull of B
\* under prefer_remote removed alice from the file of B
C11_Witness ==
    /\ PullReturned
    /\ last.store = "B"
    /\ last.policy = "prefer_remote"
    /\ "alice" \in PullTombstones \cap DOMAIN last.local
    /\ last.remote.rows["alice"].source = "mutation"
    /\ "alice" \notin DOMAIN read_all("A")
    /\ "alice" \notin DOMAIN read_all("B")

\* ------------------------------------------------------------------------
\* Rows that a pull cannot use
\* ------------------------------------------------------------------------
\* the rows whose stored payload is not the JSON text of an object
MalformedRows(dbv) ==
    {e \in DOMAIN dbv.rows :
        ~JsonLoads(dbv.rows[e].data).ok \/ JsonLoads(dbv.rows[e].data).value.t # "dict"}

\* the tables without some rows and their tags
WithoutRows(dbv, emails) ==
    [dbv EXCEPT !.rows = [e \in DOMAIN dbv.rows \ emails |-> dbv.rows[e]],
                !.tag_rows = {pair \in dbv.tag_rows : pair[1] \notin emails}]

\* a pull of a configured instance has ended, with a result or an exception
PullEnded == last.op = "pull" /\ last.error # "not_configured"

\* C17: a pull that meets rows with a malformed payload returns a result; such
\* a row is counted nowhere, a local record with its email is kept as it is,
\* and the merged map, the report and the flag are those of a pull of the same
\* remote without these rows.
C17_MalformedRowSkipped ==
    (PullEnded /\ MalformedRows(last.remote) # {}) =>
        /\ last.ok
        /\ \A e \in MalformedRows(last.remote) :
             /\ e \notin DOMAIN last.counted
             /\ e \in DOMAIN last.local =>
                  e \in DOMAIN last.merged /\ last.merged[e] = last.local[e]
        /\ LET without == sync_db_to_file(last.local,
                                          WithoutRows(last.remote, MalformedRows(last.remote)),
                                          last.policy)
           IN /\ last.merged = without.merged
              /\ last.report = without.report
              /\ last.changed = without.changed

\* ------------------------------------------------------------------------
\* The schema step, with its callers one statement at a time
\* ------------------------------------------------------------------------
\* the threads that call _ensure_schema: the worker of the executor inside a
\* background push, and a request thread inside a manual push or pull
Callers == {"worker", "operator"}

\* sync.py 75-79, 197-201 and 447-449: a caller has connected, finds the flag
\* not set and goes on into the body
EnsureEnter(s, th) ==
    /\ is_enabled(s)
    /\ th = "worker" => InStage(s, "taken") # <<>>
    /\ ~schema_ready[s]
    /\ th \notin ensuring[s].inside
    /\ ensuring' = [ensuring EXCEPT ![s] =
                      [inside |-> @.inside \cup {th}, runs |-> @.runs + 1]]
    /\ last' = NoResult
    /\ UNCHANGED <<files, config, schema_ready, db, tx, queue, executing, req, lock>>

\* sync.py 451-513: the body has run, its changes are committed and the flag
\* is set
EnsureBody(s, th) ==
    /\ th \in ensuring[s].inside
    /\ db' = _ensure_schema(db)
    /\ schema_ready' = [schema_ready EXCEPT ![s] = TRUE]
    /\ ensuring' = [ensuring EXCEPT ![s] =
                      [inside |-> @.inside \ {th}, runs |-> @.runs]]
    /\ last' = NoResult
    /\ UNCHANGED <<files, config, tx, queue, executing, req, lock>>

\* one instance and a remote database of an earlier version
InitSchema ==
    /\ files = [s \in Stores |-> IF s = "A" THEN Accounts(RecWork, NoRow) ELSE EmptyDict]
    /\ conflict_strategy = [s \in Stores |-> "prefer_local"]
    /\ enabled = [s \in Stores |-> TRUE]
    /\ path = OwnPath
    /\ \E alice \in {NoRow, RemoteEntry(RowLegacy, {})}, has_note_column \in BOOLEAN :
         db = Tables(alice, NoRow, has_note_column)
    /\ Quiet

\* sync.py 79-81 and 201-202: a caller is past the schema step
Past(s, th) == schema_ready[s] /\ th \notin ensuring[s].inside

NextSchema ==
    \/ \E th \in Callers : EnsureEnter("A", th)
    \/ \E th \in Callers : EnsureBody("A", th)
    \/ RequestStep({"t2"})
    \/ WorkerTakeJob("A")
    \/ Past("A", "worker") /\ WorkerPushBegin("A")
    \/ "worker" \notin ensuring["A"].inside /\ WorkerConnectFails("A")
    \/ PushStatement
    \/ PushStatementFails
    \/ PushCommit
    \/ Past("A", "operator") /\ ManualPushBegin("A")
    \/ Past("A", "operator") /\ Pull("A")

SpecSchema == InitSchema /\ [][NextSchema]_vars

\* C20: at most one thread at a time is inside the body of the schema step
\* of a synchronizer, no thread is inside it once the flag is set, and the
\* body runs at most once for the synchronizer.
C20_EnsureSchemaOnce ==
    \A s \in Stores :
        /\ Cardinality(ensuring[s].inside) <= 1
        /\ schema_ready[s] => ensuring[s].inside = {}
        /\ ensuring[s].runs <= 1

\* ------------------------------------------------------------------------
\* C21: seeding of the tag relation
\* ------------------------------------------------------------------------
\* a step in which the schema of an instance is ensured
Ensures(s) == ~schema_ready[s] /\ schema_ready'[s]

\* C21: a run of the schema step against a tag relation that holds a row
\* leaves the tag relation as it is, and a run against an empty one writes
\* each (email, tag) pair of the tags columns once
C21_SeedOnlyWhenEmpty ==
    [][\A s \in Stores : Ensures(s) =>
         /\ db.tag_rows # {} => db'.tag_rows = db.tag_rows
         /\ \A i, k \in 1..Len(SeededRows(db)) :
              SeededRows(db)[i] = SeededRows(db)[k] => i = k
         /\ db'.tag_rows = db.tag_rows
              \cup {SeededRows(db)[i] : i \in 1..Len(SeededRows(db))}]_vars

\* a pull has ensured the schema against a tag relation that holds bob's tag
\* and lacks the tags of alice's column
C21_Witness ==
    /\ schema_ready["A"]
    /\ last.op = "pull"
    /\ db.tag_rows # {}
    /\ \E i \in 1..Len(SeedPairs(db.rows)) : SeedPairs(db.rows)[i] \notin db.tag_rows

\* ------------------------------------------------------------------------
\* The normaliser on its own: records of every shape, normalised, normalised
\* again, serialised and hashed
\* ------------------------------------------------------------------------
\* a key that the record does not have
Absent == [t |-> "absent"]

WithField(p, key, v) == IF v = Absent THEN p ELSE Put(p, key, v)

\* tags: missing, null, lists in two orders and with a repetition, a scalar
TagShapes ==
    {Absent, None, VList(<<T("a"), T("b")>>), VList(<<T("b"), T("a")>>),
     VList(<<T("a"), T("b"), T("a")>>), T("a")}

\* notes: missing, CRLF and CR inside and around, nothing but line ends
NoteShapes ==
    {Absent, VStr(<<" ", "CR", "LF", "n1", "CR", "n2", "CR", "LF">>), VStr(<<"CR">>)}

\* status_updated_at: missing, numbers, numeric and other texts, infinities
TimestampShapes ==
    {Absent, VInt(17), VFloat(17, TRUE), VStr(<<" ", "1", "7", ".", "5">>), T("x"),
     T("inf"), VInf}

\* token_failures: missing, scalars, counts of every kind, a list
FailureShapes ==
    {Absent, VInt(3), VStr(<<"3">>), T("x"), VFloat(2, TRUE), VList(<<>>),
     VDict([count |-> VStr(<<" ", "3">>)]), VDict([count |-> T("x")]),
     VDict([count |-> VFloat(2, TRUE)]), VDict([count |-> VInf]), VInf}

ShapedRecord(tags, note, timestamp, failures) ==
    WithField(WithField(WithField(WithField(
        [refresh_token |-> T("r1"), client_id |-> T("c")],
        "tags", tags), "note", note), "status_updated_at", timestamp),
        "token_failures", failures)

\* two records that differ in their tags at most
InitNormaliser ==
    /\ \E tags \in TagShapes, other \in TagShapes, note \in NoteShapes,
          timestamp \in TimestampShapes, failures \in FailureShapes :
         files = [s \in Stores |->
                    IF s = "A"
                    THEN [e \in Emails |->
                            ShapedRecord(IF e = "alice" THEN tags ELSE other,
                                         note, timestamp, failures)]
                    ELSE EmptyDict]
    /\ conflict_strategy = [s \in Stores |-> "prefer_remote"]
    /\ enabled = [s \in Stores |-> FALSE]
    /\ path = OwnPath
    /\ db = Tables(NoRow, NoRow, TRUE)
    /\ Quiet

\* sync.py 542-545 and 322: every record of the accounts map is normalised
NormaliseAll ==
    /\ last = NoResult
    /\ last' = [op |-> "normalise",
                results |-> [e \in DOMAIN read_all("A") |-> Normalised(read_all("A")[e])]]
    /\ UNCHANGED <<files, config, remote, queue, req, lock>>

\* the normalised records are normalised once more; an error of the first
\* call is the outcome of the whole
NormaliseAgain ==
    /\ last.op = "normalise"
    /\ last' = [op |-> "renormalise",
                first |-> last.results,
                results |-> [e \in DOMAIN last.results |->
                               IF last.results[e].ok
                               THEN Normalised(last.results[e].value)
                               ELSE last.results[e]]]
    /\ UNCHANGED <<files, config, remote, queue, req, lock>>

\* sync.py 325-326: the normalised records are serialised and hashed
ChecksumAll ==
    /\ last.op = "normalise"
    /\ \A e \in DOMAIN last.results : last.results[e].ok
    /\ last' = [op |-> "checksum",
                results |-> last.results,
                checksums |-> [e \in DOMAIN last.results |->
                                 _checksum(_serialise_payload(last.results[e].value))]]
    /\ UNCHANGED <<files, config, remote, queue, req, lock>>

NextNormaliser == NormaliseAll \/ NormaliseAgain \/ ChecksumAll

SpecNormaliser == InitNormaliser /\ [][NextNormaliser]_vars

\* ------------------------------------------------------------------------
\* C22: the normaliser is idempotent
\* ------------------------------------------------------------------------
\* C22: normalising a normalised record gives that record again, for records
\* of every shape; where the first call raises, so does the whole
C22_NormaliseIdempotent ==
    last.op = "renormalise" =>
        \A e \in DOMAIN last.results : last.results[e] = last.first[e]

\* a record with scalar tags, a note with CRLF, a numeric timestamp and a
\* count kept as text has been normalised twice
C22_Witness ==
    /\ last.op = "renormalise"
    /\ read_all("A")["alice"] =
         ShapedRecord(T("a"), VStr(<<" ", "CR", "LF", "n1", "CR", "n2", "CR", "LF">>),
                      VFloat(17, TRUE), VDict([count |-> VStr(<<" ", "3">>)]))
    /\ last.first["alice"].ok
    /\ last.first["alice"].value # read_all("A")["alice"]
    /\ last.results["alice"].ok

\* ------------------------------------------------------------------------
\* C23: the normaliser is total
\* ------------------------------------------------------------------------
\* the count that int() gives, 0 where it gives none
ParsedOrZero(v) == IF v # None /\ IntOf(v).ok THEN IntOf(v).n ELSE 0

\* C23: for a record of any shape the normaliser returns a record; there
\* token_failures is a dict, {count: 0} where the input was neither a dict
\* nor a number nor a numeric text, and a count that cannot be parsed is 0
C23_NormaliserTotal ==
    last.op = "normalise" =>
        \A e \in DOMAIN last.results :
            LET payload == read_all("A")[e]
                given   == Get(payload, "token_failures")
                result  == last.results[e]
            IN /\ result.ok
               /\ given # None =>
                    /\ "token_failures" \in DOMAIN result.value
                    /\ result.value["token_failures"].t = "dict"
                    /\ given.t # "dict" =>
                         result.value["token_failures"].d
                           = [count |-> VInt(ParsedOrZero(given))]
                    /\ (given.t = "dict" /\ "count" \in DOMAIN given.d) =>
                         result.value["token_failures"].d["count"]
                           = VInt(ParsedOrZero(IF given.d["count"].t = "str"
                                               THEN VStr(Strip(given.d["count"].v))
                                               ELSE given.d["count"]))

\* ------------------------------------------------------------------------
\* C24: the same record on both sides
\* ------------------------------------------------------------------------
\* the row of an email holds the canonical serialisation of the given record,
\* its checksum, its note, and the tag relation holds its tags
StoredIdentically(dbv, e, payload) ==
    /\ e \in DOMAIN dbv.rows
    /\ ~dbv.rows[e].is_deleted
    /\ dbv.rows[e].data = _serialise_payload(payload)
    /\ dbv.rows[e].checksum = _checksum(_serialise_payload(payload))
    /\ dbv.rows[e].note = Get(payload, "note")
    /\ "tags" \in DOMAIN payload
    /\ payload["tags"].t = "list"
    /\ _fetch_existing_tags(dbv, e) = TagSet(payload["tags"].items)

\* a push leaves the row of such an email as it was
PushLeavesIdentical ==
    PushReturned =>
        \A e \in DOMAIN last.accounts :
            StoredIdentically(last.before, e, last.accounts[e]) =>
                /\ db.rows[e] = last.before.rows[e]
                /\ _fetch_existing_tags(db, e) = _fetch_existing_tags(last.before, e)

\* a pull keeps the local record of such an email and counts no change for it
PullLeavesIdentical ==
    PullReturned =>
        \A e \in DOMAIN last.local :
            StoredIdentically(last.remote, e, last.local[e]) =>
                /\ last.merged[e] = last.local[e]
                /\ last.counted[e] = "skipped"
                /\ ~last.set_changed[e]

SameTagMembers(one, two) ==
    /\ "tags" \in DOMAIN one /\ one["tags"].t = "list"
    /\ "tags" \in DOMAIN two /\ two["tags"].t = "list"
    /\ TagSet(CleanedTags(one["tags"].items)) = TagSet(CleanedTags(two["tags"].items))
    /\ Pop(one, "tags") = Pop(two, "tags")

\* C25: two records that differ in the order of their tags, or in repeated
\* tags, and in nothing else have the same normal form and the same checksum
C25_TagsAsSet ==
    (last.op = "checksum"
       /\ SameTagMembers(read_all("A")["alice"], read_all("A")["bob"])) =>
        /\ last.results["alice"].value = last.results["bob"].value
        /\ last.checksums["alice"] = last.checksums["bob"]

\* ------------------------------------------------------------------------
\* C26: every submitted job runs once
\* ------------------------------------------------------------------------
\* the steps of a worker after which its job is nearer its end whatever the
\* database answers: taking the job, a connection that fails, a statement, a
\* statement that fails, the commit. A worker that holds a job can always make
\* one of them, also where it could open its connection instead.
WorkerRuns ==
    \/ \E s \in Stores : WorkerTakeJob(s)
    \/ \E s \in Stores : WorkerConnectFails(s)
    \/ PushStatement
    \/ PushStatementFails
    \/ PushCommit

\* sync.py 26 and 189: the worker thread of an executor keeps running, and the
\* statements of a transaction come to an end
SpecLocalFair == SpecLocal /\ WF_vars(WorkerRuns)

\* the job that a request thread submitted waits in a queue
QueuedFor(th) ==
    \E s \in Stores : \E i \in 1..Len(queue[s]) : queue[s][i].owner = th

\* a worker has taken it and has not ended it
ExecutingFor(th) ==
    \E s \in Stores : \E i \in 1..Len(executing[s]) : executing[s][i].job.owner = th

\* the accounts of the job a worker holds for the thread
AccountsFor(th) ==
    LET s == CHOOSE x \in Stores :
                \E i \in 1..Len(executing[x]) : executing[x][i].job.owner = th
        i == CHOOSE k \in 1..Len(executing[s]) : executing[s][k].job.owner = th
    IN executing[s][i].job.accounts

\* a job appears in a queue only in the step of the request that submits it;
\* it leaves the queue only into the hands of a worker; it leaves the worker
\* only when its push has committed or raised, and is in no queue then
JobRunsOnce(th) ==
    /\ (~QueuedFor(th) /\ QueuedFor(th)') =>
          req[th].pc = "enqueue" /\ req'[th].pc = "done" /\ ~ExecutingFor(th)
    /\ (QueuedFor(th) /\ ~QueuedFor(th)') => ExecutingFor(th)'
    /\ (~ExecutingFor(th) /\ ExecutingFor(th)') => QueuedFor(th)
    /\ (ExecutingFor(th) /\ ~ExecutingFor(th)') =>
          /\ ~QueuedFor(th)'
          /\ last'.op = "push"
          /\ last'.thread = "worker"
          /\ last'.accounts = AccountsFor(th)

\* C26: a job that was submitted is taken by a worker and its push commits or
\* raises, once; it is neither dropped from the queue nor queued again after
\* it ended, also when an earlier job has raised
C26_EveryJobRunsOnce ==
    /\ [][\A th \in Threads : JobRunsOnce(th)]_vars
    /\ \A th \in Threads :
          (QueuedFor(th) \/ ExecutingFor(th)) ~> ~(QueuedFor(th) \/ ExecutingFor(th))

\* the push of one thread's job has raised and the job is gone, while the job
\* of the other thread waits in the queue of the same executor
C26_Witness ==
    /\ last.op = "push"
    /\ last.thread = "worker"
    /\ ~last.ok
    /\ ~QueuedFor(last.owner)
    /\ ~ExecutingFor(last.owner)
    /\ \E th \in Threads \ {last.owner} :
          \E i \in 1..Len(queue[last.store]) : queue[last.store][i].owner = th

\* ------------------------------------------------------------------------
\* C27: no tags are left for an email that a push does not hold
\* ------------------------------------------------------------------------
\* C27: after a push has committed, every email that its snapshot does not
\* hold has no row in the tag relation, whether the push marked its row
\* deleted or found it deleted
C27_AbsentEmailHasNoTags ==
    PushReturned =>
        /\ \A pair \in db.tag_rows : pair[1] \in DOMAIN last.accounts
        /\ \A e \in DOMAIN db.rows \ DOMAIN last.accounts :
              db.rows[e].is_deleted /\ _fetch_existing_tags(db, e) = {}

\* a push without alice has committed; it found her row deleted and a tag row
\* for her, and it marked bob's row, which had a tag row, deleted
C27_Witness ==
    /\ PushReturned
    /\ DOMAIN last.accounts = {}
    /\ DOMAIN last.before.rows = {"alice", "bob"}
    /\ last.before.rows["alice"].is_deleted
    /\ _fetch_existing_tags(last.before, "alice") # {}
    /\ ~last.before.rows["bob"].is_deleted
    /\ _fetch_existing_tags(last.before, "bob") # {}
    /\ db.rows["bob"].is_deleted

\* ------------------------------------------------------------------------
\* C28: the checksum column plays no part in a pull
\* ------------------------------------------------------------------------
\* values that a checksum column may hold
StoredChecksums ==
    {_checksum(_serialise_payload(EmptyDict)),
     _checksum(_serialise_payload(_normalise_payload(RecWork))),
     _checksum(_serialise_payload(_normalise_payload(RecNormal)))}

\* the remote state with other values in the checksum column
WithChecksums(dbv, sums) ==
    [dbv EXCEPT !.rows = [e \in DOMAIN dbv.rows |-> [dbv.rows[e] EXCEPT !.checksum = sums[e]]]]

\* what a pull returns
PullOutcome(result) ==
    [merged |-> result.merged, report |-> result.report, changed |-> result.changed]

\* C28: a pull of the same local records from a remote state that differs
\* from the one read in its checksum column only returns the same merged map,
\* report and changed flag
C28_StoredChecksumUnused ==
    PullReturned =>
        \A sums \in [DOMAIN last.remote.rows -> StoredChecksums] :
            PullOutcome(sync_db_to_file(last.local, WithChecksums(last.remote, sums),
                                        last.policy))
              = PullOutcome(last)

\* a pull has replaced a local record by a remote one whose checksum column
\* holds neither the checksum of the remote record nor that of the local one
C28_Witness ==
    /\ PullReturned
    /\ \E e \in DOMAIN last.local \cap DOMAIN last.remote.rows :
          /\ e \in DOMAIN last.counted
          /\ last.remote.rows[e].checksum # Remote(e).checksum
          /\ last.remote.rows[e].checksum # LocalChecksum(e)
          /\ last.counted[e] = "updated"

\* ------------------------------------------------------------------------
\* C29: where the tags of a remote record come from
\* ------------------------------------------------------------------------
\* the tags of the remote record a pull built for an email
RemoteTags(e) == Remote(e).data["tags"].items

\* C29: the remote record of a pull holds the tags of the tag relation, in
\* sorted order, whenever the relation has a row for the email, whatever the
\* tags column and the stored payload hold; it holds the tags of the tags
\* column only when the relation has no row for the email
C29_TagRelationFirst ==
    PullReturned =>
        \A e \in ReadableRows(last.remote) :
            LET relation == _fetch_existing_tags(last.remote, e)
                column   == _deserialise_tags(last.remote.rows[e].tags)
            IN /\ relation # {} => RemoteTags(e) = StoredTags(SortedSet(relation))
               /\ (relation = {} /\ column # <<>>) => RemoteTags(e) = column
               /\ (relation = {} /\ column = <<>>) =>
                     RemoteTags(e) = _normalise_payload(RowPayload(last.remote.rows[e]))["tags"].items

\* a pull has read a row whose tag relation holds other tags than its tags
\* column and than its payload, and built the record with those of the relation
C29_Witness ==
    /\ PullReturned
    /\ \E e \in ReadableRows(last.remote) :
          /\ _fetch_existing_tags(last.remote, e) # {}
          /\ TagSet(_deserialise_tags(last.remote.rows[e].tags))
               # _fetch_existing_tags(last.remote, e)
          /\ "tags" \in DOMAIN RowPayload(last.remote.rows[e])
          /\ TagSet(RowPayload(last.remote.rows[e])["tags"].items)
               # _fetch_existing_tags(last.remote, e)
          /\ TagSet(RemoteTags(e)) = _fetch_existing_tags(last.remote, e)

\* ------------------------------------------------------------------------
\* C30: failure counts of the records a pull takes from the remote
\* ------------------------------------------------------------------------
\* the emails whose record in the merged map a pull took from the remote: the
\* adopted ones, and the replaced ones under prefer_remote
TakenFromRemote ==
    {e \in DOMAIN last.counted \cap DOMAIN last.merged :
        \/ last.counted[e] = "added"
        \/ last.counted[e] = "updated" /\ last.policy = "prefer_remote"}

\* token_failures as the row of an email holds it
StoredFailures(e) == Get(RowPayload(last.remote.rows[e]), "token_failures")

\* C30: in every record that a pull adopted or took from the remote,
\* token_failures is a dict whose count is an integer: the integer value of a
\* count stored as text, and the number itself where the payload held a bare
\* number
C30_IntegerFailureCount ==
    PullReturned =>
        \A e \in TakenFromRemote :
            StoredFailures(e) # None =>
                /\ "token_failures" \in DOMAIN last.merged[e]
                /\ last.merged[e]["token_failures"].t = "dict"
                /\ "count" \in DOMAIN last.merged[e]["token_failures"].d =>
                      last.merged[e]["token_failures"].d["count"].t = "int"
                /\ (StoredFailures(e).t = "dict" /\ "count" \in DOMAIN StoredFailures(e).d) =>
                      last.merged[e]["token_failures"].d["count"]
                        = VInt(ParsedOrZero(StoredFailures(e).d["count"]))
                /\ StoredFailures(e).t = "int" =>
                      last.merged[e]["token_failures"].d = [count |-> StoredFailures(e)]

\* a pull has adopted a record whose stored count is the text "3", with the
\* count 3
C30_Witness ==
    /\ PullReturned
    /\ \E e \in TakenFromRemote :
          /\ last.counted[e] = "added"
          /\ StoredFailures(e) = VDict([count |-> VStr(<<"3">>)])
          /\ last.merged[e]["token_failures"] = VDict([count |-> VInt(3)])

\* ------------------------------------------------------------------------
\* C31: the order of the background pushes
\* ------------------------------------------------------------------------
\* the runs in which no connection and no statement of a push fails
NextUnfailing ==
    \/ RequestStep(Threads)
    \/ \E s \in Stores : WorkerTakeJob(s)
    \/ \E s \in Stores : WorkerPushBegin(s)
    \/ PushStatement
    \/ PushCommit

SpecUnfailing == InitLocal /\ [][NextUnfailing]_vars

\* every request of the process has returned success, nothing waits or runs,
\* and the push that ended last is a background push that committed
Drained ==
    /\ \A th \in Threads : req[th].pc = "done" /\ req[th].result = "ok"
    /\ \A s \in Stores : queue[s] = <<>> /\ executing[s] = <<>>
    /\ ~tx.open
    /\ BackgroundCommit(last, "A")

\* the records of the rows that are not marked deleted
LiveRemote(dbv) ==
    [e \in {x \in DOMAIN dbv.rows : ~dbv.rows[x].is_deleted} |-> RowPayload(dbv.rows[e])]

\* C31: when two requests of one process have changed the accounts file and
\* the queue has drained, the push that ran last carried the file as it is
\* now, and the live remote records are the records of the file
C31_LastPushCarriesLatest ==
    (path = OwnPath /\ Drained) =>
        /\ last.accounts = read_all("A")
        /\ LiveRemote(db) = [e \in DOMAIN read_all("A") |-> _normalise_payload(read_all("A")[e])]

\* ------------------------------------------------------------------------
\* The operator pull, step by step, beside a local mutation
\* ------------------------------------------------------------------------
\* sync_ops.py 22-26, repository.py 63-66: the pull reads the accounts file
\* and merges the remote rows into what it read; no lock is held afterwards
PullRead(th, s) ==
    /\ req[th].pc = "idle"
    /\ is_enabled(s)
    /\ ~PayloadRaises(SchemaEnsured(s))
    /\ ~tx.open
    /\ db' = SchemaEnsured(s)
    /\ schema_ready' = [schema_ready EXCEPT ![s] = TRUE]
    /\ ensuring' = EnsureRuns(s)
    /\ LET result == sync_db_to_file(read_all(s), SchemaEnsured(s), conflict_strategy[s])
       IN req' = [req EXCEPT ![th] =
                    [pc |-> IF ShouldWrite(result.changed) THEN "pull_write" ELSE "done",
                     op |-> "pull", proc |-> s, email |-> "none", arg |-> None,
                     existing |-> read_all(s), accounts |-> result.merged,
                     result |-> IF ShouldWrite(result.changed) THEN "none" ELSE "ok"]]
    /\ last' = NoResult
    /\ UNCHANGED <<files, config, tx, queue, executing, lock>>

\* sync_ops.py 31-32, repository.py 38-40 and 68-70: the merged map replaces
\* the accounts file under the lock of the repository and is submitted
PullWrite(th) ==
    /\ req[th].pc = "pull_write"
    /\ lock[req[th].proc] = "free"
    /\ Len(queue[req[th].proc]) < MaxQueue
    /\ files' = _write_to_disk(req[th].proc, req[th].accounts)
    /\ queue' = enqueue_file_to_db(req[th].proc, req[th].accounts, "pull", th)
    /\ req' = [req EXCEPT ![th] = Done(req[th], "ok")]
    /\ last' = NoResult
    /\ UNCHANGED <<config, remote, lock>>

\* one instance whose remote holds another record for alice, or none
InitPulling ==
    /\ files = [s \in Stores |-> IF s = "A" THEN Accounts(RecNormal, RecBob) ELSE EmptyDict]
    /\ \E policy \in Policies : conflict_strategy = [s \in Stores |-> policy]
    /\ enabled = [s \in Stores |-> TRUE]
    /\ path = OwnPath
    /\ \E alice \in {NoRow, RemoteEntry(PushedRow(RecOther), PushedTags(RecOther))} :
         db = Tables(alice, NoRow, TRUE)
    /\ Quiet

\* thread t1 serves a local mutation while the operator's pull runs in t2
NextPulling ==
    \/ RequestStep({"t1"})
    \/ PullRead("t2", "A")
    \/ PullWrite("t2")
    \/ WorkerStep

SpecPulling == InitPulling /\ [][NextPulling]_vars

\* ------------------------------------------------------------------------
\* C32: a mutation that commits while a pull is under way
\* ------------------------------------------------------------------------
\* the accounts file holds what the mutation of a thread wrote for its email
Reflects(accounts, th) ==
    IF req[th].op = "delete" THEN req[th].email \notin DOMAIN accounts
    ELSE Get(accounts, req[th].email) = req[th].existing

\* the mutation of a thread has replaced the file since the pull read it
CommittedSince(th, pull) ==
    /\ req[th].pc \in {"enqueue", "done"}
    /\ req[th].pc = "done" => req[th].result = "ok"
    /\ read_all(req[pull].proc) = req[th].accounts
    /\ read_all(req[pull].proc) # req[pull].existing

\* C32: when a pull writes its merged map after a local mutation has replaced
\* the accounts file that the pull had read, the file still holds what the
\* mutation stored, or lacks what it deleted
C32_MutationSurvivesPull ==
    [][(req["t2"].pc = "pull_write" /\ req'["t2"].pc = "done"
          /\ CommittedSince("t1", "t2")) =>
         Reflects(files'[path["A"]], "t1")]_vars

\* ------------------------------------------------------------------------
\* C33: the changed flag and the report
\* ------------------------------------------------------------------------
\* C33: a pull returns changed = true exactly when its report counts an added,
\* an updated or a removed record
C33_ChangedIffCounted ==
    PullReturned =>
        (last.changed <=> last.report.added + last.report.updated + last.report.removed > 0)

\* a pull under prefer_local has merged a remote record that differs from the
\* local one in its credentials only: it counted one skipped record and
\* returned changed = false
C33_Witness ==
    /\ PullReturned
    /\ last.policy = "prefer_local"
    /\ ~last.changed
    /\ last.report.skipped > 0
    /\ \E e \in DOMAIN last.counted \cap DOMAIN last.local :
          /\ last.counted[e] = "skipped"
          /\ ~last.remote.rows[e].is_deleted
          /\ LocalChecksum(e) # Remote(e).checksum

\* ------------------------------------------------------------------------
\* C34: records a pull does not report
\* ------------------------------------------------------------------------
\* the emails a pull reports as added, updated or removed
Reported(r) ==
    {e \in DOMAIN r.counted : r.counted[e] \in {"added", "updated", "removed"}}

\* C34: every local email a pull does not report as added, updated or removed
\* has in the merged map exactly the record of the local input, and when
\* changed = false the merged map equals the local input
C34_UnreportedUntouched ==
    PullReturned =>
        /\ \A e \in DOMAIN last.local \ Reported(last) :
              e \in DOMAIN last.merged /\ last.merged[e] = last.local[e]
        /\ ~last.changed => last.merged = last.local

\* ------------------------------------------------------------------------
\* C35: the live rows after a push
\* ------------------------------------------------------------------------
\* the emails of the main table that are not tombstones
LiveEmails(dbv) == {e \in DOMAIN dbv.rows : ~dbv.rows[e].is_deleted}

\* C35: after a successful push of snapshot S the live remote emails are
\* exactly the keys of S, and the stored checksum of each live row is the
\* checksum of the normalised record of S for that email
C35_LiveRowsAreTheSnapshot ==
    PushReturned =>
        /\ LiveEmails(db) = DOMAIN last.accounts
        /\ \A e \in LiveEmails(db) : db.rows[e].checksum = PushedChecksum(e)

\* a push of a snapshot holding an email that had no live row, against a remote
\* holding a live row for an email absent from the snapshot
C35_Witness ==
    /\ PushReturned
    /\ LiveEmails(last.base) \ DOMAIN last.accounts # {}
    /\ DOMAIN last.accounts \ LiveEmails(last.base) # {}
    /\ LiveEmails(db) # {}

\* ------------------------------------------------------------------------
\* C36: a push repeated
\* ------------------------------------------------------------------------
\* a push of the snapshot of the push that has just returned begins, no other
\* writer having touched the remote in between
SamePushAgain ==
    /\ PushReturned
    /\ tx'.open
    /\ tx'.accounts = last.accounts

\* C36: a push of the same snapshot right after a successful push reports
\* added = updated = marked_deleted = 0 and leaves the main table and the tag
\* relation unchanged
C36_PushIdempotent ==
    [][SamePushAgain =>
          /\ PushReport(tx'.stmts) = SyncReport(0, 0, 0, 0, 0)
          /\ Commit(db', tx'.stmts, Len(tx'.stmts)).rows = db.rows
          /\ Commit(db', tx'.stmts, Len(tx'.stmts)).tag_rows = db.tag_rows]_vars

\* the operator pushes the accounts file right after a worker pushed the map a
\* pull wrote to it: rows written by that push are in the remote, and the
\* second push finds nothing to execute
C36_Witness ==
    /\ tx.open
    /\ tx.thread = "manual"
    /\ tx.stmts = <<>>
    /\ tx.accounts = read_all("A")
    /\ queue["A"] = <<>> /\ executing["A"] = <<>>
    /\ \E e \in DOMAIN tx.accounts :
          /\ e \in DOMAIN db.rows
          /\ db.rows[e].source = "pull"
          /\ _fetch_existing_tags(db, e) # {}
    /\ \E e \in DOMAIN db.rows : db.rows[e].is_deleted

\* ------------------------------------------------------------------------
\* C37: a pull repeated
\* ------------------------------------------------------------------------
\* a pull has returned, and the next pull runs on its merged map against the
\* same remote under the same policy
SamePullAgain ==
    /\ PullReturned
    /\ last'.op = "pull" /\ last'.ok
    /\ last'.local = last.merged
    /\ last'.remote = last.remote
    /\ last'.policy = last.policy

\* sync.py 193-296 run on the merged map a pull returned, against the remote
\* that pull read
PulledAgain == sync_db_to_file(last.merged, last.remote, last.policy)

\* C37: a pull run on the merged map of the pull before it, against the
\* unchanged remote, returns changed = false with added = updated = removed = 0
\* under either policy, both when the operator pulls twice in a row and when
\* the merged map of any pull is merged again
C37_PullFixpoint ==
    /\ [][SamePullAgain =>
             /\ ~last'.changed
             /\ last'.report.added = 0
             /\ last'.report.updated = 0
             /\ last'.report.removed = 0]_vars
    /\ [](PullReturned =>
             /\ ~PulledAgain.changed
             /\ PulledAgain.report.added = 0
             /\ PulledAgain.report.updated = 0
             /\ PulledAgain.report.removed = 0)

\* the operator pulls again right after a pull that changed the accounts file:
\* the push of the merged map is still queued, the remote is as that pull read
\* it, and the second pull skipped a record whose checksums differ
C37_Witness ==
    /\ PullReturned
    /\ ~last.changed
    /\ queue["A"] # <<>>
    /\ Head(queue["A"]).source = "pull"
    /\ Head(queue["A"]).accounts = last.local
    /\ executing["A"] = <<>> /\ ~tx.open
    /\ last.remote = db
    /\ \E e \in DOMAIN last.counted : last.counted[e] = "skipped"

\* ------------------------------------------------------------------------
\* C38: the counters of a report
\* ------------------------------------------------------------------------
\* the emails a pull counted under a counter
PullCounted(counter) == {e \in DOMAIN last.counted : last.counted[e] = counter}

\* the emails for which a push executed a statement of the main table
PushCounted(op) ==
    {e \in Emails : \E i \in 1..Len(last.stmts) :
                       last.stmts[i].op = op /\ last.stmts[i].email = e}

\* the statements of the main table a push executed for an email
RowStatements(e) ==
    {i \in 1..Len(last.stmts) :
        /\ last.stmts[i].op \in {"insert", "update", "mark_deleted"}
        /\ last.stmts[i].email = e}

\* C38: in a pull report every remote email is counted under at most one of
\* added, updated, removed and skipped, and marked_deleted is 0; in a push
\* report every email of local or remote is counted under at most one of added,
\* updated and marked_deleted, and removed = skipped = 0
C38_CountersPartition ==
    /\ PullReturned =>
         /\ DOMAIN last.counted \subseteq DOMAIN last.remote.rows
         /\ last.report.added = Cardinality(PullCounted("added"))
         /\ last.report.updated = Cardinality(PullCounted("updated"))
         /\ last.report.removed = Cardinality(PullCounted("removed"))
         /\ last.report.skipped = Cardinality(PullCounted("skipped"))
         /\ last.report.marked_deleted = 0
    /\ PushReturned =>
         /\ \A e \in Emails : Cardinality(RowStatements(e)) <= 1
         /\ \A e \in Emails :
               RowStatements(e) # {} =>
                  e \in DOMAIN last.accounts \cup DOMAIN last.base.rows
         /\ last.report.added = Cardinality(PushCounted("insert"))
         /\ last.report.updated = Cardinality(PushCounted("update"))
         /\ last.report.marked_deleted = Cardinality(PushCounted("mark_deleted"))
         /\ last.report.removed = 0
         /\ last.report.skipped = 0

\* a worker has pushed the map a pull wrote: the pull counted its remote emails
\* and changed the file, and the push rewrote the row of one email and turned
\* the row of another into a tombstone
C38_Witness ==
    /\ PushReturned
    /\ last.thread = "worker"
    /\ last.source = "pull"
    /\ last.report.added + last.report.updated > 0
    /\ last.report.marked_deleted > 0

\* ------------------------------------------------------------------------
\* C39: delete of an email that is not in the local store
\* ------------------------------------------------------------------------
\* service.py 114-116, repository.py 49-56: two threads that each delete one
\* account, known or not, and the executors
NextDeleting ==
    \/ \E th \in Threads : \E e \in Emails : Begin(th, ProcessOf(th), "delete", e, None)
    \/ \E th \in Threads : Acquire(th)
    \/ \E th \in Threads : LockedRead(th)
    \/ \E th \in Threads : Write(th)
    \/ \E th \in Threads : WriteFails(th)
    \/ \E th \in Threads : Enqueue(th)
    \/ WorkerStep

SpecDeleting == InitLocal /\ [][NextDeleting]_vars

\* delete_account of a thread has read, under the lock, a file that does not
\* hold the email
DeleteOfUnknown(th) ==
    /\ req[th].pc = "locked"
    /\ req[th].op = "delete"
    /\ req[th].email \notin DOMAIN read_all(req[th].proc)

\* the jobs of an instance that a thread submitted, queued or taken
JobsOf(th) ==
    {i \in 1..Len(queue[req[th].proc]) : queue[req[th].proc][i].owner = th}
      \cup {i \in 1..Len(executing[req[th].proc]) :
               executing[req[th].proc][i].job.owner = th}

\* C39: delete_account for an email that is not in the local store fails with
\* a not-found error, leaves the accounts file unchanged and submits no push
\* job, then or later
C39_DeleteUnknownFails ==
    /\ [][\A th \in Threads :
            (DeleteOfUnknown(th) /\ req'[th] # req[th]) =>
               /\ req'[th].pc = "done"
               /\ req'[th].result = "not_found"
               /\ files' = files
               /\ queue' = queue
               /\ lock'[req[th].proc] = "free"]_vars
    /\ [](\A th \in Threads :
            (req[th].pc = "done" /\ req[th].op = "delete"
               /\ req[th].result = "not_found") => JobsOf(th) = {})

\* a delete has failed with not found for an email that the other thread had
\* deleted; the lock of the repository is free again and the one job, of the
\* delete that succeeded, has run
C39_Witness ==
    \E th \in Threads, other \in Threads :
        /\ req[th].pc = "done"
        /\ req[th].op = "delete"
        /\ req[th].result = "not_found"
        /\ lock[req[th].proc] = "free"
        /\ req[other].pc = "done"
        /\ req[other].op = "delete"
        /\ req[other].email = req[th].email
        /\ req[other].result = "ok"
        /\ \A s \in Stores : queue[s] = <<>> /\ executing[s] = <<>>
        /\ ~tx.open

====
